---- MODULE Spec2Model ----
(***************************************************************************)
(* Model of the mock OIDC4VCI issuance endpoints of the sandbox issuer     *)
(* REST service (pkg/restapi/issuer/operation/operations.go): the          *)
(* transient key-value store, initiateIssuance / wellKnownConfiguration,   *)
(* and the authorize -> authorize-request -> token -> credential handlers. *)
(*                                                                         *)
(* Strings are sequences of tokens.  A token stands for a substring whose  *)
(* inner structure no handler looks at ("r", "u1", "authstate_"), or for   *)
(* one of the substrings the conversions of the code treat specially:      *)
(*   "%41"   a percent escape, url.PathUnescape turns it into "A"          *)
(*   "%zz"   a malformed percent escape, url.PathUnescape fails on it      *)
(*   "xFF"   a byte that is not valid UTF-8, json.Marshal writes U+FFFD    *)
(*   "uFFFD" the Unicode replacement character                             *)
(*   "/"     a slash, url.QueryEscape writes "%2F"                         *)
(*   ","     the separator of the CSV request fields                       *)
(* Concatenation of strings is concatenation of sequences, so a key such   *)
(* as "cred_store_" + key is <<"cred_store_">> \o key.                     *)
(***************************************************************************)
EXTENDS Integers, Sequences, FiniteSets, TLC

VARIABLES
    store,          \* c.store: key -> bytes (storage.Store opened as issuer_txn)
    uuidCount,      \* number of ids uuid.NewString()/uuid.New() has handed out
    resp,           \* the last request served and the response written to it
    authorized,     \* history: authState -> form values of the Authorize call that made it
    codesMinted,    \* history: authCode -> value of the state cookie of the call that made it
    tokensMinted,   \* history: access token -> path id of the Token call that made it
    sessions,       \* history: key -> issuerURL, manifest, credential and status of the
                    \* initiateIssuance call that made it
    calls,          \* the Token requests being served concurrently: for each request
                    \* goroutine its position in oidcTokenEndpoint, its locals and
                    \* its response
    prepared,       \* a call of prepareCredential: its arguments, the caller's subject
                    \* map as the call leaves it, and what it returned
    topics,         \* c.eventsTopic: transaction id -> the event kept for it
    received,       \* history: the events receiveTopics accepted, in order
    didcommScopes,  \* c.didcommScopes: the set of keys of the map
    assuranceScopes,\* c.assuranceScopes: scope -> assurance scope
    conns,          \* the initiateDIDCommConnection requests being served concurrently
    trace,          \* the calls the callback handler made on the request, its
                    \* response writer and its collaborators, in order
    page,           \* a demo page in a browser: which page, the #txState label, the
                    \* polling timer and the event types its polls were answered with
    header          \* the entries setOIDCResponseHeaders put in the header map of the
                    \* response writer of the request resp is about (none when its
                    \* handler does not call it)

vars == <<store, uuidCount, resp, authorized, codesMinted, tokensMinted, sessions, calls, prepared, topics, received, didcommScopes, assuranceScopes, conns, trace, page, header>>

\* the state no handler of the OIDC issuance flow reads or writes
otherState == <<prepared, topics, received, didcommScopes, assuranceScopes, conns, trace, page>>

(***************************************************************************)
(* Bounds                                                                  *)
(***************************************************************************)
\* ids the uuid generator hands out in one behaviour of Spec
MaxUUID == 4

\* ids the uuid generator hands out in one behaviour of SpecAuth
MaxAuthUUID == 2

\* ids the uuid generator hands out in one behaviour of SpecToken
MaxTokenUUID == 3

\* ids the uuid generator hands out in one behaviour of SpecIssuance
MaxIssuanceUUID == 2

(***************************************************************************)
(* Status codes (net/http)                                                 *)
(***************************************************************************)
StatusOK == 200
StatusFound == 302
StatusTemporaryRedirect == 307
StatusBadRequest == 400
StatusUnauthorized == 401
StatusForbidden == 403
StatusInternalServerError == 500

(***************************************************************************)
(* Strings and bytes                                                       *)
(***************************************************************************)
Empty == <<>>

\* a byte slice that holds text
TextBytes(s) == [fmt |-> "text", obj |-> <<>>, text |-> s]

\* a byte slice that holds a JSON object, as the sequence of its members
JSONBytes(pairs) == [fmt |-> "json", obj |-> pairs, text |-> <<>>]

\* url.PathUnescape: decodes %XX escapes, fails on a malformed escape
PathUnescape(s) ==
    IF \E i \in DOMAIN s : s[i] = "%zz"
    THEN [err |-> TRUE, val |-> Empty]
    ELSE [err |-> FALSE,
          val |-> [i \in DOMAIN s |-> IF s[i] = "%41" THEN "A" ELSE s[i]]]

\* encoding/json writes a Go string coerced to valid UTF-8: every invalid
\* byte becomes the replacement character U+FFFD
JSONString(s) == [i \in DOMAIN s |-> IF s[i] = "xFF" THEN "uFFFD" ELSE s[i]]

\* the keys of the authorization request map, in the order json.Marshal
\* writes the members of a map (sorted by key)
AuthRequestKeys ==
    <<"claims", "client_id", "redirect_uri", "response_type", "scope", "state">>

\* json.Marshal of a map[string]string
jsonMarshalMap(m, keys) ==
    JSONBytes([i \in DOMAIN keys |-> <<keys[i], JSONString(m[keys[i]])>>])

\* json.Unmarshal into a map[string]string
jsonUnmarshalMap(b) ==
    [k \in {b.obj[i][1] : i \in DOMAIN b.obj} |->
        LET i == CHOOSE j \in DOMAIN b.obj : b.obj[j][1] = k IN b.obj[i][2]]

(***************************************************************************)
(* Store keys                                                              *)
(***************************************************************************)
\* one key for the pending credential of every session
getCredStoreKeyPrefix_Shared(key) == <<"cred_store_">>

getCredStoreKeyPrefix(key) == <<"cred_store_">> \o key

getAuthStateKeyPrefix(key) == <<"authstate_">> \o key

\* a key that is the same for every auth code: each code takes the place
\* of the one before
getAuthCodeKeyPrefix_OneSlot(key) == <<"authcode_">>

getAuthCodeKeyPrefix(key) == <<"authcode_">> \o key

getAccessTokenKeyPrefix(key) == <<"access_token_">> \o key

\* a Get whose provider error goes unnoticed
StoreHas_FaultIgnored(key, fault) == key \in DOMAIN store

\* storage.Store.Get: the value, or an error when the key is absent or the
\* provider fails (fault)
StoreHas(key, fault) == fault # "get" /\ key \in DOMAIN store

\* a Put that clears the store before it writes
StorePut_Alone(s, key, value) == [k \in {key} |-> value]

\* storage.Store.Put of one record
StorePut(s, key, value) ==
    [k \in DOMAIN s \cup {key} |-> IF k = key THEN value ELSE s[k]]

\* a Get that reports a missing key as an empty value without an error
storeGet_MissingAsEmpty(key, fault) ==
    IF StoreHas(key, fault)
    THEN [err |-> FALSE, val |-> store[key]]
    ELSE [err |-> FALSE, val |-> TextBytes(Empty)]

\* storage.Store.Get: the bytes stored under the key, or an error
storeGet(key, fault) ==
    IF StoreHas(key, fault)
    THEN [err |-> FALSE, val |-> store[key]]
    ELSE [err |-> TRUE, val |-> TextBytes(Empty)]

\* a generator that hands out the same id again
NewUUID_Repeated == <<"u1">>

\* uuid.NewString(): an id that was never handed out before
NewUUID == <<"u" \o ToString(uuidCount + 1)>>

\* the ids handed out so far
UUIDs == {<<"u" \o ToString(i)>> : i \in 1..uuidCount}

(***************************************************************************)
(* Responses                                                               *)
(***************************************************************************)
NoCookie == [name |-> "", value |-> Empty, path |-> "", minutes |-> 0]

NoLocation == Empty

oidcIssuanceLogin == <<"/oidc/login">>

\* what a handler leaves behind: the request it served (op, req), the
\* response (status, body, Location header, Set-Cookie), and the store keys
\* it read and wrote, in order
Response(op, req, status, body, location, cookie, reads, writes) ==
    [op |-> op, req |-> req, status |-> status, body |-> body,
     location |-> location, cookie |-> cookie, reads |-> reads, writes |-> writes]

\* the header map of a response writer nothing has been set in
NoHeader == [k \in {} |-> ""]

\* w.Header().Set(key, value)
HeaderSet(h, key, value) == [k \in DOMAIN h \cup {key} |-> IF k = key THEN value ELSE h[k]]

\* the headers without Cache-Control
setOIDCResponseHeaders_CacheAllowed(h) ==
    HeaderSet(HeaderSet(h, "Content-Type", "application/json"), "Pragma", "no-cache")

\* setOIDCResponseHeaders
setOIDCResponseHeaders(h) ==
    HeaderSet(HeaderSet(HeaderSet(h, "Content-Type", "application/json"),
                        "Cache-Control", "no-store"),
              "Pragma", "no-cache")

\* c.writeErrorResponse: the status and the message as plain text
writeErrorResponse(status, msg) == [status |-> status, body |-> TextBytes(<<msg>>)]

\* c.sendOIDCErrorResponse: the status and the envelope {"error": msg}
sendOIDCErrorResponse(msg, status) ==
    [status |-> status, body |-> JSONBytes(<< <<"error", <<msg>>>> >>)]

\* a handler that stops with an error: nothing but the response changes
Fail(op, req, e, reads) ==
    /\ resp' = Response(op, req, e.status, e.body, NoLocation, NoCookie, reads, <<>>)
    /\ UNCHANGED <<store, uuidCount, authorized, codesMinted, tokensMinted, sessions>>

(***************************************************************************)
(* GET /{id}/oidc/authorize                                                *)
(***************************************************************************)
AuthorizeRequest(claims, redirectURI, scope, state, responseType, clientID, fault) ==
    [claims |-> claims, redirect_uri |-> redirectURI, scope |-> scope, state |-> state,
     response_type |-> responseType, client_id |-> clientID, fault |-> fault]

\* a mistaken map literal: the client's state filed under "scope" and the
\* scope under "state"
authRequestMap_StateScopeSwapped(claims, scope, state, responseType, clientID, redirectURI) ==
    [claims |-> claims, scope |-> state, state |-> scope, response_type |-> responseType,
     client_id |-> clientID, redirect_uri |-> redirectURI]

\* the map oidcAuthorize serializes
authRequestMap(claims, scope, state, responseType, clientID, redirectURI) ==
    [claims |-> claims, scope |-> scope, state |-> state, response_type |-> responseType,
     client_id |-> clientID, redirect_uri |-> redirectURI]

\* a validation that forgets the state
invalidAuthorizeRequest_NoStateCheck(claims, redirectURI, clientID, state) ==
    claims = Empty \/ redirectURI = Empty \/ clientID = Empty

\* "basic validation only": one of the four required values is empty
invalidAuthorizeRequest(claims, redirectURI, clientID, state) ==
    claims = Empty \/ redirectURI = Empty \/ clientID = Empty \/ state = Empty

oidcAuthorize(req) ==
    LET claims == PathUnescape(req.claims)
        redirectURI == PathUnescape(req.redirect_uri)
        authState == NewUUID
        authRequest == jsonMarshalMap(
            authRequestMap(claims.val, req.scope, req.state, req.response_type,
                           req.client_id, redirectURI.val), AuthRequestKeys)
        key == getAuthStateKeyPrefix(authState)
    IN
    IF req.fault = "parse"
    THEN Fail("Authorize", req, writeErrorResponse(StatusBadRequest, "failed to parse request"), <<>>)
    ELSE IF claims.err
    THEN Fail("Authorize", req, writeErrorResponse(StatusBadRequest, "failed to read claims"), <<>>)
    ELSE IF redirectURI.err
    THEN Fail("Authorize", req, writeErrorResponse(StatusBadRequest, "failed to read redirect URI"), <<>>)
    ELSE IF invalidAuthorizeRequest(claims.val, redirectURI.val, req.client_id, req.state)
    THEN Fail("Authorize", req, writeErrorResponse(StatusBadRequest, "Invalid Request"), <<>>)
    ELSE
        /\ uuidCount' = uuidCount + 1
        /\ IF req.fault = "put"
           THEN /\ resp' = Response("Authorize", req, StatusInternalServerError,
                        TextBytes(<<"failed to save state">>), NoLocation, NoCookie, <<>>, <<>>)
                /\ UNCHANGED <<store, authorized>>
           ELSE /\ store' = StorePut(store, key, authRequest)
                /\ authorized' = StorePut(authorized, authState, req)
                /\ resp' = Response("Authorize", req, StatusFound, TextBytes(Empty),
                        oidcIssuanceLogin,
                        [name |-> "state", value |-> authState, path |-> "/", minutes |-> 5],
                        <<>>, <<key>>)
        /\ UNCHANGED <<codesMinted, tokensMinted, sessions>>

(***************************************************************************)
(* POST /oidc/authorize-request                                            *)
(***************************************************************************)
\* the state cookie of a request: absent, or present with a value
NoStateCookie == [present |-> FALSE, value |-> Empty]

StateCookie(v) == [present |-> TRUE, value |-> v]

SendAuthorizeResponseRequest(cookie, fault) == [cookie |-> cookie, fault |-> fault]

\* a cookie lookup that never fails: a request without the cookie reads as
\* one with an empty cookie value
hasStateCookie_Always(cookie) == TRUE

\* r.Cookie("state") finds the cookie
hasStateCookie(cookie) == cookie.present

\* a redirect that leaves the state out
redirectTo_NoState(redirectURI, authCode, state) ==
    redirectURI \o <<"?code=">> \o authCode

\* fmt.Sprintf("%s?code=%s&state=%s", redirectURI, authCode, state)
redirectTo(redirectURI, authCode, state) ==
    redirectURI \o <<"?code=">> \o authCode \o <<"&state=">> \o state

oidcSendAuthorizeResponse(req) ==
    LET stateCookie == req.cookie
        skey == getAuthStateKeyPrefix(stateCookie.value)
        authRequest == jsonUnmarshalMap(store[skey])
        redirectURI == authRequest["redirect_uri"]
        state == authRequest["state"]
        authCode == NewUUID
        ckey == getAuthCodeKeyPrefix(authCode)
    IN
    IF ~hasStateCookie(stateCookie)
    THEN Fail("SendAuthorizeResponse", req, writeErrorResponse(StatusForbidden, "invalid state"), <<>>)
    ELSE IF ~StoreHas(skey, req.fault)
    THEN Fail("SendAuthorizeResponse", req, writeErrorResponse(StatusBadRequest, "invalid request"), <<skey>>)
    ELSE IF store[skey].fmt # "json"
    THEN Fail("SendAuthorizeResponse", req,
              writeErrorResponse(StatusInternalServerError, "failed to read request"), <<skey>>)
    ELSE IF "redirect_uri" \notin DOMAIN authRequest
    THEN Fail("SendAuthorizeResponse", req,
              writeErrorResponse(StatusInternalServerError, "failed to redirect, invalid URL"), <<skey>>)
    ELSE IF "state" \notin DOMAIN authRequest
    THEN Fail("SendAuthorizeResponse", req,
              writeErrorResponse(StatusInternalServerError, "failed to redirect, invalid state"), <<skey>>)
    ELSE
        /\ uuidCount' = uuidCount + 1
        /\ IF req.fault = "put"
           THEN /\ resp' = Response("SendAuthorizeResponse", req, StatusInternalServerError,
                        TextBytes(<<"failed to store state cookie value">>),
                        NoLocation, NoCookie, <<skey>>, <<>>)
                /\ UNCHANGED <<store, codesMinted>>
           ELSE /\ store' = StorePut(store, ckey, TextBytes(stateCookie.value))
                /\ codesMinted' = StorePut(codesMinted, authCode, stateCookie.value)
                /\ resp' = Response("SendAuthorizeResponse", req, StatusFound, TextBytes(Empty),
                        redirectTo(redirectURI, authCode, state), NoCookie, <<skey>>, <<ckey>>)
        /\ UNCHANGED <<authorized, tokensMinted, sessions>>

(***************************************************************************)
(* POST /{id}/oidc/token                                                   *)
(***************************************************************************)
\* time.Second, as the number of decimal zeros of its nanosecond count
SecondZeros == 9

\* json.Marshal of the time.Duration n * time.Second: the decimal text of
\* its int64 nanosecond count
DurationSecondsJSON(n) == <<ToString(n)>> \o [i \in 1..SecondZeros |-> "0"]

TokenRequest(code, redirectURI, grantType, id, fault) ==
    [code |-> code, redirect_uri |-> redirectURI, grant_type |-> grantType,
     id |-> id, fault |-> fault]

\* a grant type check that lets a request without grant_type through
unsupportedGrantType_AbsentAccepted(grantType) ==
    grantType # <<"authorization_code">> /\ grantType # Empty

\* the grant type is not "authorization_code"
unsupportedGrantType(grantType) == grantType # <<"authorization_code">>

\* the comparison of the stored redirect_uri with the one of the request
redirectURIMatches(authRedirectURI, redirectURI) == authRedirectURI = redirectURI

\* the body of a successful Token response: json.Marshal writes the members
\* of the map sorted by key
tokenResponse(mockAccessToken) ==
    JSONBytes(<< <<"access_token", mockAccessToken>>,
                 <<"expires_in", DurationSecondsJSON(3600)>>,
                 <<"token_type", <<"Bearer">>>> >>)

\* the faults of a Token call: "get" fails every Get, "getstate" the Get of
\* the authstate_ record only, "put" the Put
\* a token endpoint that mints a token for any code
oidcTokenEndpoint_AnyCode(req) ==
    header' = setOIDCResponseHeaders(NoHeader) /\
    LET mockAccessToken == NewUUID
        tkey == getAccessTokenKeyPrefix(mockAccessToken)
    IN
    /\ uuidCount' = uuidCount + 1
    /\ store' = StorePut(store, tkey, TextBytes(req.id))
    /\ tokensMinted' = StorePut(tokensMinted, mockAccessToken, req.id)
    /\ resp' = Response("Token", req, StatusOK, tokenResponse(mockAccessToken),
                   NoLocation, NoCookie, <<>>, <<tkey>>)
    /\ UNCHANGED <<authorized, codesMinted, sessions>>

oidcTokenEndpoint(req) ==
    header' = setOIDCResponseHeaders(NoHeader) /\
    LET ckey == getAuthCodeKeyPrefix(req.code)
        authState == store[ckey].text
        skey == getAuthStateKeyPrefix(authState)
        authRequest == jsonUnmarshalMap(store[skey])
        \* a missing map entry reads as the empty string
        authRedirectURI == IF "redirect_uri" \in DOMAIN authRequest
                           THEN authRequest["redirect_uri"] ELSE Empty
        mockAccessToken == NewUUID
        mockIssuerID == req.id
        tkey == getAccessTokenKeyPrefix(mockAccessToken)
        response == tokenResponse(mockAccessToken)
    IN
    IF unsupportedGrantType(req.grant_type)
    THEN Fail("Token", req, sendOIDCErrorResponse("unsupported grant type", StatusBadRequest), <<>>)
    ELSE IF ~StoreHas(ckey, req.fault)
    THEN Fail("Token", req, sendOIDCErrorResponse("invalid state", StatusBadRequest), <<ckey>>)
    ELSE IF ~StoreHas(skey, IF req.fault = "getstate" THEN "get" ELSE req.fault)
    THEN Fail("Token", req, sendOIDCErrorResponse("invalid request", StatusBadRequest), <<ckey, skey>>)
    ELSE IF store[skey].fmt # "json"
    THEN Fail("Token", req,
              sendOIDCErrorResponse("failed to read request", StatusInternalServerError), <<ckey, skey>>)
    ELSE IF ~redirectURIMatches(authRedirectURI, req.redirect_uri)
    THEN Fail("Token", req,
              sendOIDCErrorResponse("request validation failed", StatusInternalServerError), <<ckey, skey>>)
    ELSE
        /\ uuidCount' = uuidCount + 1
        /\ IF req.fault = "put"
           THEN /\ resp' = Response("Token", req, StatusInternalServerError,
                        sendOIDCErrorResponse("failed to save token state", StatusInternalServerError).body,
                        NoLocation, NoCookie, <<ckey, skey>>, <<>>)
                /\ UNCHANGED <<store, tokensMinted>>
           ELSE /\ store' = StorePut(store, tkey, TextBytes(mockIssuerID))
                /\ tokensMinted' = StorePut(tokensMinted, mockAccessToken, mockIssuerID)
                /\ resp' = Response("Token", req, StatusOK, response,
                        NoLocation, NoCookie, <<ckey, skey>>, <<tkey>>)
        /\ UNCHANGED <<authorized, codesMinted, sessions>>

(***************************************************************************)
(* POST /{id}/oidc/credential                                              *)
(***************************************************************************)
\* strings.Split(s, sep) for a separator that is one token: the substrings
\* between the occurrences of sep (always at least one substring)
RECURSIVE Split(_, _)
Split(s, sep) ==
    IF \A i \in DOMAIN s : s[i] # sep
    THEN <<s>>
    ELSE LET i == CHOOSE j \in DOMAIN s :
                      s[j] = sep /\ \A k \in 1..(j - 1) : s[k] # sep
         IN <<SubSeq(s, 1, i - 1)>> \o Split(SubSeq(s, i + 1, Len(s)), sep)

\* the credentials: "junk" is a byte string verifiable.ParseCredential rejects
IsCredential(b) == b.fmt = "text" /\ Len(b.text) = 1 /\ b.text[1] \in {"vcA", "vcB"}

\* the linked data proof signVCWithED25519 attaches
ProofToken == "proof:Ed25519Signature2018:assertionMethod"

\* a signing step that returns the credential as it was parsed
signVCWithED25519_NoProof(vc) == vc

\* the credential with the proof attached, serialized again
signVCWithED25519(vc) == vc \o <<ProofToken>>

CredentialRequest(format, authorization, id, fault) ==
    [format |-> format, authorization |-> authorization, id |-> id, fault |-> fault]

\* a header check that never finds the token empty
emptyToken_Never(authHeader) == FALSE

\* the header ends with "Bearer ": there is no token after it
emptyToken(authHeader) == authHeader[2] = Empty

\* a check that accepts any stored issuer id
issuerIDMatches_Any(mockIssuerID, issuerID) == TRUE

\* the check of the token's issuer id against the id of the path
issuerIDMatches(mockIssuerID, issuerID) == mockIssuerID = issuerID

\* a delivery that keeps the signed credential as the pending credential
oidcCredentialEndpoint_SignsInPlace(req) ==
    header' = setOIDCResponseHeaders(NoHeader) /\
    LET authHeader == Split(req.authorization, "Bearer ")
        tkey == getAccessTokenKeyPrefix(authHeader[2])
        vkey == getCredStoreKeyPrefix(req.id)
        credBytes == signVCWithED25519(store[vkey].text)
        response == JSONBytes(<< <<"credential", credBytes>>, <<"format", req.format>> >>)
    IN
    IF \/ Len(authHeader) # 2
       \/ ~StoreHas(tkey, req.fault)
       \/ ~StoreHas(vkey, req.fault)
    THEN Fail("Credential", req, sendOIDCErrorResponse("invalid token", StatusForbidden), <<>>)
    ELSE IF ~IsCredential(store[vkey])
    THEN Fail("Credential", req,
              sendOIDCErrorResponse("failed to prepare credential", StatusInternalServerError), <<tkey, vkey>>)
    ELSE
        /\ store' = [store EXCEPT ![vkey] = TextBytes(credBytes)]
        /\ resp' = Response("Credential", req, StatusOK, response,
                       NoLocation, NoCookie, <<tkey, vkey>>, <<vkey>>)
        /\ UNCHANGED <<uuidCount, authorized, codesMinted, tokensMinted, sessions>>

\* a delivery that spends the access token
oidcCredentialEndpoint_ConsumesToken(req) ==
    header' = setOIDCResponseHeaders(NoHeader) /\
    LET authHeader == Split(req.authorization, "Bearer ")
        tkey == getAccessTokenKeyPrefix(authHeader[2])
        vkey == getCredStoreKeyPrefix(req.id)
        credBytes == signVCWithED25519(store[vkey].text)
        response == JSONBytes(<< <<"credential", credBytes>>, <<"format", req.format>> >>)
    IN
    IF \/ Len(authHeader) # 2
       \/ ~StoreHas(tkey, req.fault)
       \/ ~StoreHas(vkey, req.fault)
    THEN Fail("Credential", req, sendOIDCErrorResponse("invalid token", StatusForbidden), <<>>)
    ELSE IF store[tkey].text # req.id \/ ~IsCredential(store[vkey])
    THEN Fail("Credential", req,
              sendOIDCErrorResponse("invalid transaction", StatusForbidden), <<tkey, vkey>>)
    ELSE
        /\ store' = [k \in DOMAIN store \ {tkey} |-> store[k]]
        /\ resp' = Response("Credential", req, StatusOK, response,
                       NoLocation, NoCookie, <<tkey, vkey>>, <<>>)
        /\ UNCHANGED <<uuidCount, authorized, codesMinted, tokensMinted, sessions>>

\* a delivery that looks at the Authorization header before the format
oidcCredentialEndpoint_HeaderFirst(req) ==
    header' = setOIDCResponseHeaders(NoHeader) /\
    LET authHeader == Split(req.authorization, "Bearer ")
        tkey == getAccessTokenKeyPrefix(authHeader[2])
        vkey == getCredStoreKeyPrefix(req.id)
        credBytes == signVCWithED25519(store[vkey].text)
        response == JSONBytes(<< <<"credential", credBytes>>, <<"format", req.format>> >>)
    IN
    IF Len(authHeader) # 2
    THEN Fail("Credential", req, sendOIDCErrorResponse("malformed token", StatusBadRequest), <<>>)
    ELSE IF authHeader[2] = Empty
    THEN Fail("Credential", req, sendOIDCErrorResponse("invalid token", StatusForbidden), <<>>)
    ELSE IF req.format # Empty /\ req.format # <<"ldp_vc">>
    THEN Fail("Credential", req,
              sendOIDCErrorResponse("unsupported format requested", StatusBadRequest), <<>>)
    ELSE IF ~StoreHas(tkey, req.fault)
    THEN Fail("Credential", req,
              sendOIDCErrorResponse("unsupported format requested", StatusBadRequest), <<tkey>>)
    ELSE IF store[tkey].text # req.id
    THEN Fail("Credential", req,
              sendOIDCErrorResponse("invalid transaction", StatusForbidden), <<tkey>>)
    ELSE IF ~StoreHas(vkey, req.fault)
    THEN Fail("Credential", req,
              sendOIDCErrorResponse("failed to get credential", StatusInternalServerError), <<tkey, vkey>>)
    ELSE IF ~IsCredential(store[vkey])
    THEN Fail("Credential", req,
              sendOIDCErrorResponse("failed to prepare credential", StatusInternalServerError), <<tkey, vkey>>)
    ELSE
        /\ resp' = Response("Credential", req, StatusOK, response,
                       NoLocation, NoCookie, <<tkey, vkey>>, <<>>)
        /\ UNCHANGED <<store, uuidCount, authorized, codesMinted, tokensMinted, sessions>>

oidcCredentialEndpoint(req) ==
    header' = setOIDCResponseHeaders(NoHeader) /\
    LET authHeader == Split(req.authorization, "Bearer ")
        mockIssuerID == req.id
        tkey == getAccessTokenKeyPrefix(authHeader[2])
        tokenRecord == storeGet(tkey, req.fault)
        issuerID == tokenRecord.val.text
        vkey == getCredStoreKeyPrefix(mockIssuerID)
        credentialBytes == store[vkey]
        credBytes == signVCWithED25519(credentialBytes.text)
        response == JSONBytes(<< <<"credential", credBytes>>, <<"format", req.format>> >>)
    IN
    IF req.format # Empty /\ req.format # <<"ldp_vc">>
    THEN Fail("Credential", req,
              sendOIDCErrorResponse("unsupported format requested", StatusBadRequest), <<>>)
    ELSE IF Len(authHeader) # 2
    THEN Fail("Credential", req, sendOIDCErrorResponse("malformed token", StatusBadRequest), <<>>)
    ELSE IF emptyToken(authHeader)
    THEN Fail("Credential", req, sendOIDCErrorResponse("invalid token", StatusForbidden), <<>>)
    ELSE IF tokenRecord.err
    THEN Fail("Credential", req,
              sendOIDCErrorResponse("unsupported format requested", StatusBadRequest), <<tkey>>)
    ELSE IF ~issuerIDMatches(mockIssuerID, issuerID)
    THEN Fail("Credential", req,
              sendOIDCErrorResponse("invalid transaction", StatusForbidden), <<tkey>>)
    ELSE IF ~StoreHas(vkey, req.fault)
    THEN Fail("Credential", req,
              sendOIDCErrorResponse("failed to get credential", StatusInternalServerError), <<tkey, vkey>>)
    ELSE IF ~IsCredential(credentialBytes) \/ req.fault = "parse"
    THEN Fail("Credential", req,
              sendOIDCErrorResponse("failed to prepare credential", StatusInternalServerError), <<tkey, vkey>>)
    ELSE IF req.fault = "sign"
    THEN Fail("Credential", req,
              sendOIDCErrorResponse("failed to issue credential", StatusInternalServerError), <<tkey, vkey>>)
    ELSE
        /\ resp' = Response("Credential", req, StatusOK, response,
                       NoLocation, NoCookie, <<tkey, vkey>>, <<>>)
        /\ UNCHANGED <<store, uuidCount, authorized, codesMinted, tokensMinted, sessions>>

(***************************************************************************)
(* net/url: query strings                                                  *)
(***************************************************************************)
\* url.QueryEscape: escapes what is not unreserved
QueryEscape(s) == [i \in DOMAIN s |-> IF s[i] = "/" THEN "%2F" ELSE s[i]]

\* url.QueryUnescape
QueryUnescape(s) == [i \in DOMAIN s |-> IF s[i] = "%2F" THEN "/" ELSE s[i]]

\* strings.Cut(s, sep): the text before and after the first sep
Cut(s, sep) ==
    IF \A i \in DOMAIN s : s[i] # sep
    THEN <<s, Empty>>
    ELSE LET i == CHOOSE j \in DOMAIN s :
                      s[j] = sep /\ \A k \in 1..(j - 1) : s[k] # sep
         IN <<SubSeq(s, 1, i - 1), SubSeq(s, i + 1, Len(s))>>

\* url.ParseQuery: url.Values as the sequence of its <<key, value>> entries;
\* the values of one key keep their order
RECURSIVE parseQueryParts(_)
parseQueryParts(parts) ==
    IF parts = <<>> THEN <<>>
    ELSE LET kv == Cut(Head(parts), "=")
         IN (IF Head(parts) = Empty THEN <<>>
             ELSE << <<QueryUnescape(kv[1]), QueryUnescape(kv[2])>> >>)
            \o parseQueryParts(Tail(parts))

ParseQuery(rawQuery) == parseQueryParts(Split(rawQuery, "&"))

\* url.Values.Set: the key holds exactly this value
ValuesSet(q, key, value) ==
    SelectSeq(q, LAMBDA e : e[1] # key) \o << <<key, value>> >>

\* url.Values.Add: one more value for the key
ValuesAdd(q, key, value) == q \o << <<key, value>> >>

RECURSIVE ValuesAddAll(_, _, _)
ValuesAddAll(q, key, values) ==
    IF values = <<>> THEN q
    ELSE ValuesAddAll(ValuesAdd(q, key, Head(values)), key, Tail(values))

\* the query keys of the model in byte order, the order of sort.Strings
SortedQueryKeys == <<"app", "credential_type", "issuer", "manifest_id", "wallet">>

\* url.Values.Encode: "key=value" joined by "&", keys sorted, both escaped
RECURSIVE encodeFrom(_, _, _)
encodeFrom(q, i, first) ==
    IF i > Len(SortedQueryKeys) THEN <<>>
    ELSE LET es == SelectSeq(q, LAMBDA e : e[1] = <<SortedQueryKeys[i]>>)
             one(e) == QueryEscape(e[1]) \o <<"=">> \o QueryEscape(e[2])
             join[n \in 0..Len(es)] ==
                 IF n = 0 THEN <<>>
                 ELSE join[n - 1] \o (IF first /\ n = 1 THEN <<>> ELSE <<"&">>) \o one(es[n])
         IN join[Len(es)] \o encodeFrom(q, i + 1, first /\ es = <<>>)

ValuesEncode(q) == encodeFrom(q, 1, TRUE)

\* url.Parse of the wallet URL: fails on a malformed escape; otherwise the
\* URL up to the first "?" and the raw query after it
URLParse(rawURL) ==
    LET c == Cut(rawURL, "?")
    IN [err |-> \E i \in DOMAIN rawURL : rawURL[i] = "%zz", base |-> c[1], RawQuery |-> c[2]]

\* url.URL.String
URLString(base, rawQuery) == IF rawQuery = Empty THEN base ELSE base \o <<"?">> \o rawQuery

(***************************************************************************)
(* POST /oidc/issuance                                                     *)
(***************************************************************************)
\* c.walletURL, from the configuration
DefaultWalletURL == <<"wallet.default">>

\* a deep link built with q.Add("issuer", ...) in place of q.Set
parseWalletURL_IssuerAdded(walletURL, issuer, credentialTypes, manifestIDs) ==
    LET u == URLParse(walletURL)
        q0 == ParseQuery(u.RawQuery)
        q1 == ValuesAdd(q0, <<"issuer">>, issuer)
        q2 == ValuesAddAll(q1, <<"credential_type">>, credentialTypes)
        q3 == ValuesAddAll(q2, <<"manifest_id">>, manifestIDs)
    IN [err |-> u.err, val |-> URLString(u.base, ValuesEncode(q3))]

parseWalletURL(walletURL, issuer, credentialTypes, manifestIDs) ==
    LET u == URLParse(walletURL)
        q0 == ParseQuery(u.RawQuery)
        q1 == ValuesSet(q0, <<"issuer">>, issuer)
        q2 == ValuesAddAll(q1, <<"credential_type">>, credentialTypes)
        q3 == ValuesAddAll(q2, <<"manifest_id">>, manifestIDs)
    IN [err |-> u.err, val |-> URLString(u.base, ValuesEncode(q3))]

\* json.MarshalIndent of the issuerConfiguration
issuerConfiguration(issuer, credManifest) ==
    JSONBytes(<< <<"issuer", JSONString(issuer)>>,
                 <<"authorization_endpoint", JSONString(issuer \o <<"/oidc/authorize">>)>>,
                 <<"token_endpoint", JSONString(issuer \o <<"/oidc/token">>)>>,
                 <<"credential_endpoint", JSONString(issuer \o <<"/oidc/credential">>)>>,
                 <<"credential_manifests", credManifest>> >>)

\* a save that puts the credential under the bare key, over the document
saveIssuanceConfig_CredentialUnderKey(key, issuerConf, credential, fault) ==
    IF fault = "put1" THEN [err |-> TRUE, store |-> store, writes |-> <<>>]
    ELSE IF fault = "put2"
    THEN [err |-> TRUE, store |-> StorePut(store, key, issuerConf), writes |-> <<key>>]
    ELSE [err |-> FALSE,
          store |-> StorePut(StorePut(store, key, issuerConf), key, credential),
          writes |-> <<key, key>>]

\* the store after c.saveIssuanceConfig, whose first or second Put may fail
saveIssuanceConfig(key, issuerConf, credential, fault) ==
    IF fault = "put1" THEN [err |-> TRUE, store |-> store, writes |-> <<>>]
    ELSE IF fault = "put2"
    THEN [err |-> TRUE, store |-> StorePut(store, key, issuerConf), writes |-> <<key>>]
    ELSE [err |-> FALSE,
          store |-> StorePut(StorePut(store, key, issuerConf),
                             getCredStoreKeyPrefix(key), credential),
          writes |-> <<key, getCredStoreKeyPrefix(key)>>]

IssuanceRequest(walletInitIssuanceURL, credentialTypes, manifestIDs, issuerURL, credManifest, credential, fault) ==
    [walletInitIssuanceURL |-> walletInitIssuanceURL, credentialTypes |-> credentialTypes,
     manifestIDs |-> manifestIDs, issuerURL |-> issuerURL, credManifest |-> credManifest,
     credential |-> credential, fault |-> fault]

initiateIssuance(req) ==
    LET walletURL == IF req.walletInitIssuanceURL = Empty
                     THEN DefaultWalletURL ELSE req.walletInitIssuanceURL
        credentialTypes == Split(req.credentialTypes, ",")
        manifestIDs == Split(req.manifestIDs, ",")
        key == NewUUID
        issuer == req.issuerURL \o <<"/">> \o key
        issuerConf == issuerConfiguration(issuer, req.credManifest)
        saved == saveIssuanceConfig(key, issuerConf, TextBytes(req.credential), req.fault)
        redirectURL == parseWalletURL(walletURL, issuer, credentialTypes, manifestIDs)
        status == IF saved.err \/ redirectURL.err THEN StatusInternalServerError ELSE StatusOK
        body == IF saved.err THEN TextBytes(<<"failed to store issuer server configuration">>)
                ELSE IF redirectURL.err
                THEN TextBytes(<<"failed to parse wallet init issuance URL">>)
                ELSE TextBytes(redirectURL.val)
    IN
    IF req.fault = "decode"
    THEN Fail("InitiateIssuance", req,
              writeErrorResponse(StatusBadRequest, "failed to decode request"), <<>>)
    ELSE
        /\ uuidCount' = uuidCount + 1
        /\ store' = saved.store
        /\ sessions' = StorePut(sessions, key,
               [issuerURL |-> req.issuerURL, credManifest |-> req.credManifest,
                credential |-> req.credential, status |-> status])
        /\ resp' = Response("InitiateIssuance", req, status, body,
                       NoLocation, NoCookie, <<>>, saved.writes)
        /\ UNCHANGED <<authorized, codesMinted, tokensMinted>>

(***************************************************************************)
(* GET /{id}/.well-known/openid-configuration                              *)
(***************************************************************************)
WellKnownRequest(id, fault) == [id |-> id, fault |-> fault]

wellKnownConfiguration(req) ==
    /\ IF ~StoreHas(req.id, req.fault)
       THEN resp' = Response("WellKnownConfiguration", req, StatusInternalServerError,
                        TextBytes(<<"failed to read well known configuration">>),
                        NoLocation, NoCookie, <<req.id>>, <<>>)
       ELSE resp' = Response("WellKnownConfiguration", req, StatusOK, store[req.id],
                        NoLocation, NoCookie, <<req.id>>, <<>>)
    /\ UNCHANGED <<store, uuidCount, authorized, codesMinted, tokensMinted, sessions>>

(***************************************************************************)
(* GET /callback (CMS login): the transaction data                         *)
(***************************************************************************)
CallbackRequest(userID, scope, token, callbackURL, fault) ==
    [userID |-> userID, scope |-> scope, token |-> token,
     callbackURL |-> callbackURL, fault |-> fault]

\* getDataFromCms with a callbackURL cookie: the user id, scope and access
\* token are stored under a fresh txnID and the browser is sent back.  (With
\* no such cookie the handler prepares a credential and renders a page; that
\* branch leaves the store alone and is not part of this action.)
getDataFromCms(req) ==
    LET txnID == NewUUID
        dataBytes == JSONBytes(<< <<"UserID", JSONString(req.userID)>>,
                                  <<"Scope", JSONString(req.scope)>>,
                                  <<"Token", JSONString(req.token)>> >>)
    IN
    /\ req.callbackURL # Empty
    /\ IF req.fault = "exchange"
       THEN Fail("Callback", req,
                 writeErrorResponse(StatusBadRequest, "failed to exchange code for token"), <<>>)
       ELSE
           /\ uuidCount' = uuidCount + 1
           /\ IF req.fault = "put"
              THEN /\ resp' = Response("Callback", req, StatusInternalServerError,
                           TextBytes(<<"failed to save txn data">>), NoLocation, NoCookie, <<>>, <<>>)
                   /\ UNCHANGED store
              ELSE /\ store' = StorePut(store, txnID, dataBytes)
                   /\ resp' = Response("Callback", req, StatusTemporaryRedirect, TextBytes(Empty),
                           req.callbackURL \o <<"?txnID=">> \o txnID, NoCookie, <<>>, <<txnID>>)
           /\ UNCHANGED <<authorized, codesMinted, tokensMinted, sessions>>

(***************************************************************************)
(* GET /callback: the OAuth2 login callback                                *)
(***************************************************************************)
\* c.homePage
homePage == <<"home">>

\* a callback request: the error query parameter (Empty when absent), the
\* vcsProfile cookie, and what getDataFromCms gets from its collaborators
OAuthCallbackRequest(error, vcsProfile, userID, fault) ==
    [error |-> error, vcsProfile |-> vcsProfile]
        @@ CallbackRequest(userID, <<"scope">>, <<"cmstoken">>, <<"cb">>, fault)

\* the calls that answer the request: each writes the status line
ResponseWrites == {"http.Redirect", "writeErrorResponse"}

\* the calls getDataFromCms makes, in order, up to the one that ends it
getDataFromCmsCalls(req) ==
    IF req.fault = "exchange"
    THEN <<"tokenIssuer.Exchange", "writeErrorResponse">>
    ELSE <<"tokenIssuer.Exchange", "tokenResolver.Resolve", "getCMSData", "r.Cookie", "store.Put">>
         \o <<IF req.fault = "put" THEN "writeErrorResponse" ELSE "http.Redirect">>

\* what the client is left with when the handler writes to a response whose
\* status line and headers went out with an earlier write: the first status
\* and Location stand, the later body is appended
writeAgain(first, later) ==
    [later EXCEPT !.status = first.status, !.location = first.location,
                  !.body = TextBytes(first.body.text \o later.body.text)]

\* callback: error=access_denied is answered with a redirect to the home
\* page, and the handler goes on: it looks for the vcsProfile cookie, answers
\* 400 without it and hands the request to getDataFromCms with it
callback(req) ==
    LET denied == req.error = <<"access_denied">>
        home == Response("Callback", req, StatusTemporaryRedirect, TextBytes(Empty),
                         homePage, NoCookie, <<>>, <<>>)
        before == IF denied THEN <<"http.Redirect">> ELSE <<>>
        txnID == NewUUID
        dataBytes == JSONBytes(<< <<"UserID", JSONString(req.userID)>>,
                                  <<"Scope", JSONString(req.scope)>>,
                                  <<"Token", JSONString(req.token)>> >>)
        noCookie == Response("Callback", req, StatusBadRequest,
                             TextBytes(<<"failed to get cookie">>), NoLocation, NoCookie, <<>>, <<>>)
        noToken == Response("Callback", req, StatusBadRequest,
                            TextBytes(<<"failed to exchange code for token">>),
                            NoLocation, NoCookie, <<>>, <<>>)
        notSaved == Response("Callback", req, StatusInternalServerError,
                             TextBytes(<<"failed to save txn data">>), NoLocation, NoCookie, <<>>, <<>>)
        saved == Response("Callback", req, StatusTemporaryRedirect, TextBytes(Empty),
                          req.callbackURL \o <<"?txnID=">> \o txnID, NoCookie, <<>>, <<txnID>>)
    IN
    IF ~req.vcsProfile.present
    THEN /\ trace' = before \o <<"r.Cookie", "writeErrorResponse">>
         /\ resp' = IF denied THEN writeAgain(home, noCookie) ELSE noCookie
         /\ UNCHANGED <<store, uuidCount, authorized, codesMinted, tokensMinted, sessions>>
    ELSE IF ~denied
    THEN /\ trace' = <<"r.Cookie">> \o getDataFromCmsCalls(req)
         /\ getDataFromCms(req)
    ELSE /\ req.callbackURL # Empty
         /\ trace' = before \o <<"r.Cookie">> \o getDataFromCmsCalls(req)
         /\ IF req.fault = "exchange"
            THEN /\ resp' = writeAgain(home, noToken)
                 /\ UNCHANGED <<store, uuidCount>>
            ELSE /\ uuidCount' = uuidCount + 1
                 /\ IF req.fault = "put"
                    THEN /\ resp' = writeAgain(home, notSaved)
                         /\ UNCHANGED store
                    ELSE /\ store' = StorePut(store, txnID, dataBytes)
                         /\ resp' = writeAgain(home, saved)
         /\ UNCHANGED <<authorized, codesMinted, tokensMinted, sessions>>

(***************************************************************************)
(* Requests                                                                *)
(***************************************************************************)
\* an id a caller can name: one the service handed out, or one it did not
KnownIDs == UUIDs \cup {<<"x">>}

AuthorizeOver(Claims, RedirectURIs, Scopes, States, ClientIDs, Faults) ==
    \E c \in Claims, r \in RedirectURIs, s \in Scopes, t \in States,
       k \in ClientIDs, f \in Faults :
        /\ oidcAuthorize(AuthorizeRequest(c, r, s, t, <<"code">>, k, f))
        /\ UNCHANGED <<calls, otherState>>
        /\ header' = NoHeader

SendAuthorizeResponseOver(Cookies, Faults) ==
    \E c \in Cookies, f \in Faults :
        /\ oidcSendAuthorizeResponse(SendAuthorizeResponseRequest(c, f))
        /\ UNCHANGED <<calls, otherState>>
        /\ header' = NoHeader

TokenOver(Codes, RedirectURIs, GrantTypes, IDs, Faults) ==
    \E c \in Codes, r \in RedirectURIs, g \in GrantTypes, i \in IDs, f \in Faults :
        /\ oidcTokenEndpoint(TokenRequest(c, r, g, i, f))
        /\ UNCHANGED <<calls, otherState>>

CredentialOver(Formats, Authorizations, IDs, Faults) ==
    \E m \in Formats, a \in Authorizations, i \in IDs, f \in Faults :
        /\ oidcCredentialEndpoint(CredentialRequest(m, a, i, f))
        /\ UNCHANGED <<calls, otherState>>

IssuanceOver(WalletURLs, CredentialTypes, ManifestIDs, IssuerURLs, Credentials, Faults) ==
    \E w \in WalletURLs, t \in CredentialTypes, m \in ManifestIDs, u \in IssuerURLs,
       c \in Credentials, f \in Faults :
        /\ initiateIssuance(IssuanceRequest(w, t, m, u, <<"manifest">>, c, f))
        /\ UNCHANGED <<calls, otherState>>
        /\ header' = NoHeader

WellKnownOver(IDs, Faults) ==
    \E i \in IDs, f \in Faults :
        /\ wellKnownConfiguration(WellKnownRequest(i, f))
        /\ UNCHANGED <<calls, otherState>>
        /\ header' = NoHeader

CallbackOver(Faults) ==
    \E f \in Faults :
        /\ getDataFromCms(CallbackRequest(<<"user">>, <<"scope">>, <<"cmstoken">>, <<"cb">>, f))
        /\ UNCHANGED <<calls, otherState>>
        /\ header' = NoHeader

EmptyMap == [k \in {} |-> Empty]

\* the request goroutines that serve Token concurrently
Procs == {1, 2}

\* a goroutine that has not been handed a request
IdleCall ==
    [pc |-> "idle", req |-> TokenRequest(Empty, Empty, Empty, Empty, "none"),
     authState |-> Empty, token |-> Empty, peer |-> "idle",
     status |-> 0, body |-> TextBytes(Empty)]

\* the goroutine p has written its response: it is done
CallDone(p, e) ==
    calls' = [calls EXCEPT ![p].pc = "done", ![p].status = e.status, ![p].body = e.body]

\* the other of the two goroutines
Peer(p) == 3 - p

\* oidcTokenEndpoint up to its first store access: the form values are read
\* and the grant type is checked
oidcTokenEndpointBegin(p, req) ==
    /\ calls[p].pc = "idle"
    /\ IF unsupportedGrantType(req.grant_type)
       THEN calls' = [calls EXCEPT ![p].pc = "done", ![p].req = req,
                          ![p].status = StatusBadRequest,
                          ![p].body = sendOIDCErrorResponse("unsupported grant type",
                                                            StatusBadRequest).body]
       ELSE calls' = [calls EXCEPT ![p].pc = "getAuthCode", ![p].req = req]
    /\ UNCHANGED <<store, uuidCount, resp, authorized, codesMinted, tokensMinted, sessions, otherState, header>>

\* c.store.Get(getAuthCodeKeyPrefix(code))
oidcTokenEndpointGetAuthCode(p) ==
    LET ckey == getAuthCodeKeyPrefix(calls[p].req.code)
    IN
    /\ calls[p].pc = "getAuthCode"
    /\ IF ~StoreHas(ckey, calls[p].req.fault)
       THEN CallDone(p, sendOIDCErrorResponse("invalid state", StatusBadRequest))
       ELSE calls' = [calls EXCEPT ![p].pc = "getAuthState", ![p].authState = store[ckey].text]
    /\ UNCHANGED <<store, uuidCount, resp, authorized, codesMinted, tokensMinted, sessions, otherState, header>>

\* c.store.Get(getAuthStateKeyPrefix(authState)), json.Unmarshal and the
\* comparison of the redirect_uri
oidcTokenEndpointGetAuthState(p) ==
    LET skey == getAuthStateKeyPrefix(calls[p].authState)
        authRequest == jsonUnmarshalMap(store[skey])
        authRedirectURI == IF "redirect_uri" \in DOMAIN authRequest
                           THEN authRequest["redirect_uri"] ELSE Empty
    IN
    /\ calls[p].pc = "getAuthState"
    /\ IF ~StoreHas(skey, calls[p].req.fault)
       THEN CallDone(p, sendOIDCErrorResponse("invalid request", StatusBadRequest))
       ELSE IF store[skey].fmt # "json"
       THEN CallDone(p, sendOIDCErrorResponse("failed to read request", StatusInternalServerError))
       ELSE IF ~redirectURIMatches(authRedirectURI, calls[p].req.redirect_uri)
       THEN CallDone(p, sendOIDCErrorResponse("request validation failed", StatusInternalServerError))
       ELSE calls' = [calls EXCEPT ![p].pc = "put"]
    /\ UNCHANGED <<store, uuidCount, resp, authorized, codesMinted, tokensMinted, sessions, otherState, header>>

\* uuid.NewString(), c.store.Put(getAccessTokenKeyPrefix(mockAccessToken),
\* mockIssuerID) and the response
oidcTokenEndpointPut(p) ==
    LET mockAccessToken == NewUUID
        mockIssuerID == calls[p].req.id
        tkey == getAccessTokenKeyPrefix(mockAccessToken)
    IN
    /\ calls[p].pc = "put"
    /\ uuidCount' = uuidCount + 1
    /\ IF calls[p].req.fault = "put"
       THEN /\ CallDone(p, sendOIDCErrorResponse("failed to save token state",
                                                 StatusInternalServerError))
            /\ UNCHANGED <<store, tokensMinted>>
       ELSE /\ store' = StorePut(store, tkey, TextBytes(mockIssuerID))
            /\ tokensMinted' = StorePut(tokensMinted, mockAccessToken, mockIssuerID)
            /\ calls' = [calls EXCEPT ![p].pc = "done", ![p].token = mockAccessToken,
                               ![p].peer = calls[Peer(p)].pc,
                               ![p].status = StatusOK,
                               ![p].body = tokenResponse(mockAccessToken)]
    /\ UNCHANGED <<resp, authorized, codesMinted, sessions, otherState, header>>

(***************************************************************************)
(* prepareCredential(subject, scope, vcsProfile)                           *)
(***************************************************************************)
\* the values of a map[string]interface{}: a string, a []interface{} of
\* strings, a map[string]interface{} or nil
StringValue(s) == [kind |-> "string", str |-> s, list |-> <<>>, map |-> EmptyMap]
ListValue(l) == [kind |-> "list", str |-> "", list |-> l, map |-> EmptyMap]
MapValue(m) == [kind |-> "map", str |-> "", list |-> <<>>, map |-> m]
NilValue == [kind |-> "nil", str |-> "", list |-> <<>>, map |-> EmptyMap]

\* m[k] = v on a Go map
MapSet(m, k, v) == [x \in DOMAIN m \cup {k} |-> IF x = k THEN v ELSE m[x]]

\* a delete that removes nothing
MapDelete_Nothing(m, k) == m

\* delete(m, k) on a Go map
MapDelete(m, k) == [x \in DOMAIN m \ {k} |-> m[x]]

\* m[k] read from a Go map: nil when the key is missing
MapGet(m, k) == IF k \in DOMAIN m THEN m[k] ELSE NilValue

credentialContext == "https://www.w3.org/2018/credentials/v1"
trustBlocExampleContext == "https://trustbloc.github.io/context/vc/examples-ext-v1.jsonld"
citizenshipContext == "https://w3id.org/citizenship/v1"
\* a reserved scope that no caller sends
externalScopeQueryParam_Unused == "external_data"

externalScopeQueryParam == "subject_data"

\* a custom context that is added after the existing ones
getCustomContext_Appended(existingContext, customCtx) ==
    IF "@context" \in DOMAIN customCtx
    THEN [panic |-> customCtx["@context"].kind # "list",
          val |-> existingContext \o customCtx["@context"].list]
    ELSE [panic |-> FALSE, val |-> existingContext]

\* getCustomContext: the "@context" of the metadata when it has one; the
\* type assertion ctx.([]interface{}) panics on any other kind of value
getCustomContext(existingContext, customCtx) ==
    IF "@context" \in DOMAIN customCtx
    THEN [panic |-> customCtx["@context"].kind # "list",
          val |-> customCtx["@context"].list]
    ELSE [panic |-> FALSE, val |-> existingContext]

\* the profile c.retrieveProfile fetches from the VC service
IssuerProfile == [DID |-> "did:example:issuer", Name |-> "issuer", URI |-> "https://vcs/issuer"]

\* json.Marshal(cred): the members of the credential; the custom fields are
\* members of the credential itself
marshalCredential(cred) ==
    JSONBytes(<< <<"@context", cred.Context>>,
                 <<"type", cred.Types>>,
                 <<"credentialSubject", cred.Subject>>,
                 <<"issuer", cred.Issuer>>,
                 <<"id", cred.ID>>,
                 <<"customFields", cred.CustomFields>> >>)

PrepareRequest(subject, scope, vcsProfile, fault) ==
    [subject |-> subject, scope |-> scope, vcsProfile |-> vcsProfile, fault |-> fault]

\* the call of prepareCredential with the arguments req: the caller's subject
\* map as the call leaves it, the error (none, a failed retrieveProfile, or
\* a panic of getCustomContext) and the bytes returned
prepareCredential(req) ==
    LET subject1 == MapSet(req.subject, "id", StringValue(""))
        defaultCredTypes == <<"VerifiableCredential", "PermanentResidentCard">>
        vcContext0 == <<credentialContext, trustBlocExampleContext>>
        hasMetaData == /\ "vcmetadata" \in DOMAIN subject1
                       /\ subject1["vcmetadata"].kind = "map"
        vcMetaData == subject1["vcmetadata"].map
        custom == IF hasMetaData THEN getCustomContext(vcContext0, vcMetaData)
                  ELSE [panic |-> FALSE, val |-> vcContext0]
        vcContext == custom.val
        customFields0 == IF hasMetaData
                         THEN [k \in {"name", "description"} |-> MapGet(vcMetaData, k)]
                         ELSE EmptyMap
        subject2 == MapDelete(MapDelete(MapDelete(MapDelete(subject1,
                        "created_at"), "updated_at"), "userid"), "vcmetadata")
        external == req.scope = externalScopeQueryParam
        subject3 == IF /\ "vccredentialsubject" \in DOMAIN subject2
                       /\ subject2["vccredentialsubject"].kind = "map"
                    THEN subject2["vccredentialsubject"]
                    ELSE IF external THEN MapGet(subject2, "subjectData")
                    ELSE MapValue(subject2)
        cred == [Context |-> IF external THEN <<credentialContext, citizenshipContext>>
                             ELSE vcContext,
                 Types |-> IF external THEN defaultCredTypes
                           ELSE <<"VerifiableCredential", req.scope>>,
                 Subject |-> subject3,
                 Issuer |-> [id |-> IssuerProfile.DID, name |-> IssuerProfile.Name],
                 ID |-> <<IssuerProfile.URI, "/">> \o NewUUID,
                 CustomFields |-> IF external
                                  THEN MapSet(customFields0, "name",
                                              StringValue("Permanent Resident Card"))
                                  ELSE customFields0]
    IN
    IF custom.panic
    THEN [pc |-> "returned", req |-> req, subject |-> subject1, err |-> "panic",
          bytes |-> TextBytes(Empty)]
    ELSE IF req.fault = "profile"
    THEN [pc |-> "returned", req |-> req, subject |-> subject2, err |-> "profile",
          bytes |-> TextBytes(Empty)]
    ELSE [pc |-> "returned", req |-> req, subject |-> subject2, err |-> "none",
          bytes |-> marshalCredential(cred)]

\* no call of prepareCredential has been made
NotPrepared ==
    [pc |-> "none", req |-> PrepareRequest(EmptyMap, "", "", "none"), subject |-> EmptyMap,
     err |-> "none", bytes |-> TextBytes(Empty)]

\* prepareCredential is about to be called with the arguments req
PrepareCall(req) ==
    [pc |-> "called", req |-> req, subject |-> req.subject, err |-> "none",
     bytes |-> TextBytes(Empty)]

(***************************************************************************)
(* POST /verify/openid4ci/webhook and GET /verify/openid4ci/webhook/check  *)
(***************************************************************************)
\* an event envelope: the transaction id it is tagged with and its type
Event(txID, type) == [txID |-> txID, type |-> type]

TopicsRequest(event, fault) == [event |-> event, fault |-> fault]

CheckRequest(tx) == [tx |-> tx, fault |-> "none"]

\* a relay that keeps the first event of a transaction id
topicsPut_FirstKept(m, event) == IF event.txID \in DOMAIN m THEN m ELSE MapSet(m, event.txID, event)

\* the relay after it is handed an event: the event replaces the one kept
\* for its transaction id
topicsPut(m, event) == MapSet(m, event.txID, event)

\* what the relay answers for a transaction id: the event kept for it, or
\* an empty object when there is none
topicsGet(m, tx) ==
    IF tx \in DOMAIN m THEN JSONBytes(<< <<"txID", m[tx].txID>>, <<"type", m[tx].type>> >>)
    ELSE JSONBytes(<<>>)

\* receiveTopics: an envelope that decodes is accepted and kept
receiveTopics(req) ==
    /\ IF req.fault = "decode"
       THEN /\ resp' = Response("ReceiveTopics", req, StatusBadRequest, TextBytes(Empty),
                           NoLocation, NoCookie, <<>>, <<>>)
            /\ UNCHANGED <<topics, received>>
       ELSE /\ topics' = topicsPut(topics, req.event)
            /\ received' = Append(received, req.event)
            /\ resp' = Response("ReceiveTopics", req, StatusOK, TextBytes(Empty),
                           NoLocation, NoCookie, <<>>, <<>>)
    /\ header' = NoHeader
    /\ UNCHANGED <<store, uuidCount, authorized, codesMinted, tokensMinted, sessions, calls,
                   prepared, didcommScopes, assuranceScopes, conns, trace, page>>

\* checkTopics: the answer of the relay for the transaction id asked
checkTopics(req) ==
    /\ resp' = Response("CheckTopics", req, StatusOK, topicsGet(topics, req.tx),
                   NoLocation, NoCookie, <<>>, <<>>)
    /\ header' = NoHeader
    /\ UNCHANGED <<store, uuidCount, authorized, codesMinted, tokensMinted, sessions, calls,
                   otherState>>

(***************************************************************************)
(* GET /didcomm/init, served by two goroutines at the same time            *)
(***************************************************************************)
DIDCommRequest(adapterProfile, didCommScope, assuranceScope) ==
    [adapterProfile |-> adapterProfile, didCommScope |-> didCommScope,
     assuranceScope |-> assuranceScope]

\* a goroutine that has not been handed a request
IdleConn ==
    [pc |-> "idle", req |-> DIDCommRequest(Empty, Empty, Empty), raced |-> FALSE,
     status |-> 0, body |-> TextBytes(Empty), location |-> NoLocation]

\* initiateDIDCommConnection up to its first map assignment: the form
\* values are read and checked
initiateDIDCommConnectionBegin(p, req) ==
    /\ conns[p].pc = "idle"
    /\ IF req.adapterProfile = Empty
       THEN conns' = [conns EXCEPT ![p].pc = "done", ![p].req = req,
                          ![p].status = StatusBadRequest,
                          ![p].body = writeErrorResponse(StatusBadRequest,
                                                         "missing adapterProfile").body]
       ELSE IF req.didCommScope = Empty
       THEN conns' = [conns EXCEPT ![p].pc = "done", ![p].req = req,
                          ![p].status = StatusBadRequest,
                          ![p].body = writeErrorResponse(StatusBadRequest,
                                                         "missing didCommScope").body]
       ELSE conns' = [conns EXCEPT ![p].pc = "didcommScopes", ![p].req = req]
    /\ UNCHANGED <<store, uuidCount, resp, authorized, codesMinted, tokensMinted, sessions,
                   calls, prepared, topics, received, didcommScopes, assuranceScopes, trace, page, header>>

\* the position of a goroutine that is inside the assignment it was about
\* to make
Inside(pc) == IF pc = "didcommScopes" THEN "assignDidcommScopes" ELSE "assignAssuranceScopes"

\* the goroutine p enters the runtime's map assignment for
\* c.didcommScopes[scope] or c.assuranceScopes[scope]; no lock is held. When
\* another goroutine is inside an assignment to the same map this is a data
\* race: the runtime either detects it and ends the process with "fatal
\* error: concurrent map writes", or both assignments go on
mapassignEnter(p) ==
    LET inside == Inside(conns[p].pc)
    IN
    /\ conns[p].pc \in {"didcommScopes", "assuranceScopes"}
    /\ IF \E q \in Procs \ {p} : conns[q].pc = inside
       THEN \/ conns' = [q \in Procs |-> [conns[q] EXCEPT !.pc = "fatal"]]
            \/ conns' = [q \in Procs |->
                            IF q = p THEN [conns[q] EXCEPT !.pc = inside, !.raced = TRUE]
                            ELSE [conns[q] EXCEPT !.raced = TRUE]]
       ELSE conns' = [conns EXCEPT ![p].pc = inside]
    /\ UNCHANGED <<store, uuidCount, resp, authorized, codesMinted, tokensMinted, sessions,
                   calls, prepared, topics, received, didcommScopes, assuranceScopes, trace, page, header>>

\* the goroutine p leaves the map assignment: the entry is in the map,
\* unless the assignment raced with another one, and then it may be lost
mapassignExit(p) ==
    LET scope == conns[p].req.didCommScope
        assuranceScope == conns[p].req.assuranceScope
    IN
    /\ conns[p].pc \in {"assignDidcommScopes", "assignAssuranceScopes"}
    /\ \E lost \in (IF conns[p].raced THEN BOOLEAN ELSE {FALSE}) :
           IF conns[p].pc = "assignDidcommScopes"
           THEN /\ didcommScopes' = IF lost THEN didcommScopes ELSE didcommScopes \cup {scope}
                /\ conns' = [conns EXCEPT ![p].raced = FALSE,
                                   ![p].pc = IF assuranceScope # Empty
                                             THEN "assuranceScopes" ELSE "redirect"]
                /\ UNCHANGED assuranceScopes
           ELSE /\ assuranceScopes' = IF lost THEN assuranceScopes
                                      ELSE MapSet(assuranceScopes, scope, assuranceScope)
                /\ conns' = [conns EXCEPT ![p].raced = FALSE, ![p].pc = "redirect"]
                /\ UNCHANGED didcommScopes
    /\ UNCHANGED <<store, uuidCount, resp, authorized, codesMinted, tokensMinted, sessions,
                   calls, prepared, topics, received, trace, page, header>>

\* the redirect to the issuer adapter
initiateDIDCommConnectionRedirect(p) ==
    /\ conns[p].pc = "redirect"
    /\ conns' = [conns EXCEPT ![p].pc = "done", ![p].status = StatusFound,
                       ![p].location = <<"adapter", "/">> \o conns[p].req.adapterProfile
                                       \o <<"/connect/wallet?cred=">>
                                       \o conns[p].req.didCommScope]
    /\ UNCHANGED <<store, uuidCount, resp, authorized, codesMinted, tokensMinted, sessions,
                   calls, prepared, topics, received, didcommScopes, assuranceScopes, trace, page, header>>

(***************************************************************************)
(* The demo pages: the script that polls the webhook check                 *)
(***************************************************************************)
\* the page before it is opened
NoPage == [kind |-> "none", txState |-> <<>>, qrCode |-> FALSE, successBlock |-> FALSE,
           handle |-> FALSE, polls |-> <<>>]

\* the page as the browser renders it and its script leaves it after
\* setInterval: the label, the QR code shown, the success block hidden, the
\* timer running
OpenPage(kind) ==
    [kind |-> kind, txState |-> <<"State: ", "awaiting QR code scan">>, qrCode |-> TRUE,
     successBlock |-> FALSE, handle |-> TRUE, polls |-> <<>>]

\* the switch of the pre-authorize page: what it appends to "State: "
preAuthorizeText(type) ==
    CASE type = "oidc_interaction_initiated" -> <<"awaiting QR code scan">>
      [] type = "oidc_interaction_succeeded" -> <<"issued successfully">>
      [] type = "oidc_interaction_qr_scanned" -> <<"QR code scanned">>
      [] OTHER -> <<>>

\* the switch of the auth-code-flow page
authCodeFlowText(type) ==
    CASE type = "oidc_interaction_initiated" -> <<"awaiting QR code scan">>
      [] type = "oidc_interaction_qr_scanned" -> <<"QR code scanned">>
      [] type = "oidc_interaction_authorization_request_prepared" -> <<"authorization request prepared">>
      [] type = "oidc_interaction_authorization_code_stored" -> <<"authorization code stored">>
      [] type = "oidc_interaction_authorization_code_exchanged" ->
             <<"authorization code exchanged for access token">>
      [] type = "oidc_interaction_succeeded" -> <<"issued successfully">>
      [] type = "oidc_interaction_failed" -> <<"issuance failed">>
      [] OTHER -> <<>>

\* the event types whose case calls clearTimeout(handle)
clearsTimeout(kind, type) ==
    \/ type = "oidc_interaction_succeeded"
    \/ kind = "authCodeFlow" /\ type = "oidc_interaction_failed"

\* window.setState once the check has answered with data.type = type ("" when
\* the answer has none): no type, nothing changes; else the label is set, and
\* the cases that end the interaction hide the QR code and clear the timer
setState(pg, type) ==
    IF type = ""
    THEN pg
    ELSE [pg EXCEPT
            !.txState = <<"State: ">> \o (IF pg.kind = "preAuthorize"
                                          THEN preAuthorizeText(type)
                                          ELSE authCodeFlowText(type)),
            !.qrCode = IF clearsTimeout(pg.kind, type) THEN FALSE ELSE @,
            !.successBlock = IF type = "oidc_interaction_succeeded" THEN TRUE ELSE @,
            !.handle = IF clearsTimeout(pg.kind, type) THEN FALSE ELSE @]

NoResponse ==
    Response("none", [fault |-> "none"], 0, TextBytes(Empty), NoLocation, NoCookie, <<>>, <<>>)

\* the state after New(): an empty transient store, nothing served yet
Init ==
    /\ store = EmptyMap
    /\ uuidCount = 0
    /\ resp = NoResponse
    /\ authorized = EmptyMap
    /\ codesMinted = EmptyMap
    /\ tokensMinted = EmptyMap
    /\ sessions = EmptyMap
    /\ calls = [p \in Procs |-> IdleCall]
    /\ prepared = NotPrepared
    /\ topics = EmptyMap
    /\ received = <<>>
    /\ didcommScopes = {}
    /\ assuranceScopes = EmptyMap
    /\ conns = [p \in Procs |-> IdleConn]
    /\ header = NoHeader
    /\ trace = <<>>
    /\ page = NoPage

(***************************************************************************)
(* Spec: every endpoint, in any order, with well-formed requests and the   *)
(* ids a caller can know                                                   *)
(***************************************************************************)
\* the path ids a caller can name: the issuer keys handed out, and another
IssuerIDs == DOMAIN sessions \cup {<<"x">>}

InitiateIssuance ==
    /\ IssuanceOver({Empty}, {<<"a">>}, {<<"m">>}, {<<"U">>}, {<<"vcA">>, <<"junk">>}, {"none"})
    /\ uuidCount' <= MaxUUID

WellKnownConfiguration == WellKnownOver(DOMAIN store \cup {<<"x">>}, {"none"})

Authorize ==
    /\ AuthorizeOver({<<"c">>}, {<<"r">>}, {<<"s">>}, {<<"t">>}, {<<"k">>}, {"none"})
    /\ uuidCount' <= MaxUUID

SendAuthorizeResponse ==
    /\ SendAuthorizeResponseOver({StateCookie(v) : v \in DOMAIN authorized \cup {<<"x">>}}, {"none"})
    /\ uuidCount' <= MaxUUID

Token ==
    /\ TokenOver(DOMAIN codesMinted \cup {<<"x">>}, {<<"r">>}, {<<"authorization_code">>},
                 IssuerIDs, {"none"})
    /\ uuidCount' <= MaxUUID

Credential ==
    CredentialOver({<<"ldp_vc">>}, {<<"Bearer ">> \o t : t \in DOMAIN tokensMinted \cup {<<"x">>}},
                   IssuerIDs, {"none", "get", "parse", "sign"})

Callback ==
    /\ CallbackOver({"none"})
    /\ uuidCount' <= MaxUUID

Next ==
    \/ InitiateIssuance
    \/ WellKnownConfiguration
    \/ Authorize
    \/ SendAuthorizeResponse
    \/ Token
    \/ Credential
    \/ Callback

Spec == Init /\ [][Next]_vars

(***************************************************************************)
(* SpecAuth: the authorize and authorize-request endpoints with every      *)
(* shape of form value and cookie                                          *)
(***************************************************************************)
AuthorizeAnyForm ==
    /\ AuthorizeOver({Empty, <<"c">>, <<"c", "%41">>, <<"%zz">>},
                     {Empty, <<"r">>, <<"r", "xFF">>},
                     {<<"s">>}, {Empty, <<"t">>}, {Empty, <<"k">>}, {"none"})
    /\ uuidCount' <= MaxAuthUUID

SendAuthorizeResponseAnyCookie ==
    /\ SendAuthorizeResponseOver({NoStateCookie} \cup {StateCookie(v) : v \in KnownIDs},
                                 {"none", "get", "put"})
    /\ uuidCount' <= MaxAuthUUID

NextAuth ==
    \/ AuthorizeAnyForm
    \/ SendAuthorizeResponseAnyCookie

SpecAuth == Init /\ [][NextAuth]_vars

(***************************************************************************)
(* SpecToken: the token endpoint with every grant type, code and           *)
(* redirect_uri, after authorize and authorize-request                     *)
(***************************************************************************)
AuthorizeRedirectURI ==
    /\ AuthorizeOver({<<"c">>}, {<<"r">>, <<"r", "%41">>}, {<<"s">>}, {<<"t">>}, {<<"k">>}, {"none"})
    /\ uuidCount' <= MaxTokenUUID

SendAuthorizeResponseOfState ==
    /\ SendAuthorizeResponseOver({StateCookie(v) : v \in DOMAIN authorized}, {"none"})
    /\ uuidCount' <= MaxTokenUUID

TokenAnyGrant ==
    /\ TokenOver(KnownIDs, {<<"r">>, <<"r", "%41">>},
                 {<<"authorization_code">>, <<"password">>, Empty}, {<<"i">>},
                 {"none", "getstate", "put"})
    /\ uuidCount' <= MaxTokenUUID

NextToken ==
    \/ AuthorizeRedirectURI
    \/ SendAuthorizeResponseOfState
    \/ TokenAnyGrant

SpecToken == Init /\ [][NextToken]_vars

(***************************************************************************)
(* SpecIssuance: the issuance endpoint with every shape of wallet URL and  *)
(* CSV field, and the well-known endpoint                                  *)
(***************************************************************************)
WalletURLs ==
    { Empty,
      <<"wallet.app">>,
      <<"wallet.app", "?", "issuer", "=", "old", "&", "credential_type", "=", "x", "&", "app", "=", "1">>,
      <<"wallet.app", "%zz">> }

InitiateIssuanceAnyWallet ==
    /\ IssuanceOver(WalletURLs, {Empty, <<"a">>, <<"a", ",", "b">>}, {Empty, <<"m">>, <<"m", ",", "n">>},
                    {<<"U">>}, {<<"vcA">>}, {"none"})
    /\ uuidCount' <= MaxIssuanceUUID

WellKnownConfigurationOfKey == WellKnownOver(DOMAIN store \cup {<<"x">>}, {"none"})

NextIssuance ==
    \/ InitiateIssuanceAnyWallet
    \/ WellKnownConfigurationOfKey

SpecIssuance == Init /\ [][NextIssuance]_vars

(***************************************************************************)
(* SpecCredential: the credential endpoint with every shape of             *)
(* Authorization header and format, after a whole issuance flow            *)
(***************************************************************************)
\* ids the uuid generator hands out in one behaviour of SpecCredential
MaxCredentialUUID == 4

InitiateIssuanceOfCredential ==
    /\ IssuanceOver({Empty}, {<<"a">>}, {<<"m">>}, {<<"U">>}, {<<"vcA">>}, {"none"})
    /\ uuidCount' <= MaxCredentialUUID

AuthorizeWallet ==
    /\ AuthorizeOver({<<"c">>}, {<<"r">>}, {<<"s">>}, {<<"t">>}, {<<"k">>}, {"none"})
    /\ uuidCount' <= MaxCredentialUUID

SendAuthorizeResponseWallet ==
    /\ SendAuthorizeResponseOver({StateCookie(v) : v \in DOMAIN authorized}, {"none"})
    /\ uuidCount' <= MaxCredentialUUID

TokenWallet ==
    /\ TokenOver(DOMAIN codesMinted, {<<"r">>}, {<<"authorization_code">>}, IssuerIDs, {"none"})
    /\ uuidCount' <= MaxCredentialUUID

\* the tokens a caller can present: the minted ones, and one that is not stored
BearerTokens == DOMAIN tokensMinted \cup {<<"x">>}

\* the Authorization headers: absent, "Bearer " alone, text before
\* "Bearer " alone, and for each token "Bearer {t}", "Basic {t}",
\* "x" before "Bearer {t}", and "Bearer {t}" twice
AuthorizationHeaders ==
    {Empty, <<"Bearer ">>, <<"x", "Bearer ">>}
    \cup {<<"Bearer ">> \o t : t \in BearerTokens}
    \cup {<<"Basic ">> \o t : t \in BearerTokens}
    \cup {<<"x", "Bearer ">> \o t : t \in BearerTokens}
    \cup {<<"Bearer ">> \o t \o <<"Bearer ">> \o t : t \in BearerTokens}

CredentialAnyHeader ==
    CredentialOver({Empty, <<"ldp_vc">>, <<"jwt_vc">>}, AuthorizationHeaders, IssuerIDs, {"none"})

NextCredential ==
    \/ InitiateIssuanceOfCredential
    \/ AuthorizeWallet
    \/ SendAuthorizeResponseWallet
    \/ TokenWallet
    \/ CredentialAnyHeader

SpecCredential == Init /\ [][NextCredential]_vars

(***************************************************************************)
(* SpecConcurrent: two Token requests served at the same time, their store *)
(* accesses interleaved, after one issuance flow and before Credential     *)
(***************************************************************************)
\* ids the uuid generator hands out in one behaviour of SpecConcurrent
MaxConcurrentUUID == 5

InitiateIssuanceOnce ==
    /\ IssuanceOver({Empty}, {<<"a">>}, {<<"m">>}, {<<"U">>}, {<<"vcA">>}, {"none"})
    /\ uuidCount' <= MaxConcurrentUUID

AuthorizeOnce ==
    /\ AuthorizeOver({<<"c">>}, {<<"r">>}, {<<"s">>}, {<<"t">>}, {<<"k">>}, {"none"})
    /\ uuidCount' <= MaxConcurrentUUID

SendAuthorizeResponseOnce ==
    /\ SendAuthorizeResponseOver({StateCookie(v) : v \in DOMAIN authorized}, {"none"})
    /\ uuidCount' <= MaxConcurrentUUID

TokenBegin ==
    \E p \in Procs, c \in DOMAIN codesMinted, i \in DOMAIN sessions :
        oidcTokenEndpointBegin(p, TokenRequest(c, <<"r">>, <<"authorization_code">>, i, "none"))

TokenGetAuthCode == \E p \in Procs : oidcTokenEndpointGetAuthCode(p)

TokenGetAuthState == \E p \in Procs : oidcTokenEndpointGetAuthState(p)

TokenPut ==
    /\ \E p \in Procs : oidcTokenEndpointPut(p)
    /\ uuidCount' <= MaxConcurrentUUID

CredentialOfToken ==
    CredentialOver({<<"ldp_vc">>}, {<<"Bearer ">> \o t : t \in DOMAIN tokensMinted},
                   DOMAIN sessions, {"none"})

NextConcurrent ==
    \/ InitiateIssuanceOnce
    \/ AuthorizeOnce
    \/ SendAuthorizeResponseOnce
    \/ TokenBegin
    \/ TokenGetAuthCode
    \/ TokenGetAuthState
    \/ TokenPut
    \/ CredentialOfToken

SpecConcurrent == Init /\ [][NextConcurrent]_vars

(***************************************************************************)
(* SpecBinding: sessions with different credentials and one authorization  *)
(* attempt made at any path id, its codes exchanged and the tokens         *)
(* presented at the path ids of the sessions                               *)
(***************************************************************************)
\* POST /oidc/issuance with one of two credentials
InitiateIssuanceOfEither ==
    /\ IssuanceOver({Empty}, {<<"a">>}, {<<"m">>}, {<<"U">>}, {<<"vcA">>, <<"vcB">>}, {"none"})
    /\ uuidCount' <= MaxConcurrentUUID

\* GET /{id}/oidc/authorize at the path id of a session or at another one
AuthorizeAt ==
    /\ authorized = EmptyMap
    /\ \E id \in IssuerIDs :
           /\ oidcAuthorize([id |-> id] @@
                  AuthorizeRequest(<<"c">>, <<"r">>, <<"s">>, <<"t">>, <<"code">>, <<"k">>, "none"))
           /\ UNCHANGED <<calls, otherState>>
           /\ header' = NoHeader
    /\ uuidCount' <= MaxConcurrentUUID

\* POST /{id}/oidc/token with a code of the attempt, at the path id of a
\* session
TokenAt ==
    /\ TokenOver(DOMAIN codesMinted, {<<"r">>}, {<<"authorization_code">>},
                 DOMAIN sessions, {"none"})
    /\ uuidCount' <= MaxConcurrentUUID

NextBinding ==
    \/ InitiateIssuanceOfEither
    \/ AuthorizeAt
    \/ SendAuthorizeResponseOnce
    \/ TokenAt
    \/ CredentialOfToken

SpecBinding == Init /\ [][NextBinding]_vars

(***************************************************************************)
(* SpecDIDComm: two requests to the DIDComm init endpoint served at the    *)
(* same time, their steps interleaved                                      *)
(***************************************************************************)
NextDIDComm ==
    \/ \E p \in Procs, a \in {Empty, <<"profile">>}, s \in {Empty, <<"s1">>, <<"s2">>},
          t \in {Empty, <<"high">>} :
           initiateDIDCommConnectionBegin(p, DIDCommRequest(a, s, t))
    \/ \E p \in Procs : mapassignEnter(p)
    \/ \E p \in Procs : mapassignExit(p)
    \/ \E p \in Procs : initiateDIDCommConnectionRedirect(p)

SpecDIDComm == Init /\ [][NextDIDComm]_vars

(***************************************************************************)
(* SpecTopics: events of two transactions posted to the webhook and polled *)
(***************************************************************************)
\* the number of events the webhook receives
MaxEvents == 4

TxIDs == {"tx1", "tx2"}

EventTypes == {"oidc_interaction_initiated", "oidc_interaction_succeeded"}

ReceiveTopics ==
    /\ Len(received) < MaxEvents
    /\ \E tx \in TxIDs, type \in EventTypes, f \in {"none", "decode"} :
           receiveTopics(TopicsRequest(Event(tx, type), f))

CheckTopics == \E tx \in TxIDs \cup {"tx0"} : checkTopics(CheckRequest(tx))

NextTopics ==
    \/ ReceiveTopics
    \/ CheckTopics

SpecTopics == Init /\ [][NextTopics]_vars

(***************************************************************************)
(* SpecPrepare: prepareCredential applied to the subject maps the CMS and   *)
(* the external data source can return                                     *)
(***************************************************************************)
\* the values a subject can carry under "vcmetadata": a map with an
\* "@context" list, one with a name and a description only, one whose
\* "@context" is not a list, and a value that is not a map
MetadataValues ==
    {MapValue([c \in {"@context"} |-> ListValue(<<"a", "b">>)]),
     MapValue([c \in {"@context", "name"} |->
                  IF c = "name" THEN StringValue("Degree") ELSE ListValue(<<"a">>)]),
     MapValue([c \in {"name", "description"} |-> StringValue(c)]),
     MapValue([c \in {"@context"} |-> StringValue("a")]),
     StringValue("meta")}

\* the values under "vccredentialsubject" and "subjectData"
SubjectValues ==
    {MapValue([c \in {"degree"} |-> StringValue("BSc")]),
     MapValue([c \in {"id", "created_at"} |-> StringValue(IF c = "id" THEN "did:ex:1" ELSE "2019")]),
     StringValue("blob")}

\* a field the subject does not carry
Absent == [kind |-> "absent", str |-> "", list |-> <<>>, map |-> EmptyMap]

\* the optional fields of a subject: each is absent or has one of its values
SubjectFields ==
    [vcmetadata : MetadataValues \cup {Absent},
     vccredentialsubject : SubjectValues \cup {Absent},
     subjectData : SubjectValues \cup {Absent},
     created_at : {StringValue("2020"), Absent},
     id : {StringValue("42"), Absent}]

\* the subject map with a name and the fields of c that are not absent
SubjectOf(c) ==
    [k \in {"name"} \cup {f \in DOMAIN c : c[f] # Absent} |->
        IF k = "name" THEN StringValue("n") ELSE c[k]]

Subjects == {SubjectOf(c) : c \in SubjectFields}

PrepareScopes == {"subject_data", "UniversityDegreeCredential"}

InitPrepare ==
    /\ store = EmptyMap
    /\ uuidCount = 0
    /\ resp = NoResponse
    /\ authorized = EmptyMap
    /\ codesMinted = EmptyMap
    /\ tokensMinted = EmptyMap
    /\ sessions = EmptyMap
    /\ calls = [p \in Procs |-> IdleCall]
    /\ topics = EmptyMap
    /\ received = <<>>
    /\ didcommScopes = {}
    /\ assuranceScopes = EmptyMap
    /\ conns = [p \in Procs |-> IdleConn]
    /\ header = NoHeader
    /\ trace = <<>>
    /\ page = NoPage
    /\ \E m \in Subjects, scope \in PrepareScopes, f \in {"none", "profile"} :
           prepared = PrepareCall(PrepareRequest(m, scope, "profile1", f))

PrepareCredential ==
    /\ prepared.pc = "called"
    /\ prepared' = prepareCredential(prepared.req)
    /\ uuidCount' = IF prepared'.err = "none" THEN uuidCount + 1 ELSE uuidCount
    /\ UNCHANGED <<store, resp, authorized, codesMinted, tokensMinted, sessions, calls,
                   topics, received, didcommScopes, assuranceScopes, conns, trace, page, header>>

NextPrepare == PrepareCredential

SpecPrepare == InitPrepare /\ [][NextPrepare]_vars

(***************************************************************************)
(* SpecCallback: the OAuth2 callback with and without the error parameter, *)
(* with and without the vcsProfile cookie, and with the failures of the    *)
(* token exchange and of the store                                         *)
(***************************************************************************)
MaxCallbackUUID == 3

OAuthCallback ==
    /\ \E e \in {Empty, <<"access_denied">>, <<"server_error">>},
          c \in {NoStateCookie, StateCookie(<<"profile1">>)},
          u \in {<<"user1">>, <<"user2">>},
          f \in {"none", "exchange", "put"} :
            callback(OAuthCallbackRequest(e, c, u, f))
    /\ uuidCount' <= MaxCallbackUUID
    /\ header' = NoHeader
    /\ UNCHANGED <<calls, prepared, topics, received, didcommScopes, assuranceScopes, conns, page>>

NextCallback == OAuthCallback

SpecCallback == Init /\ [][NextCallback]_vars

(***************************************************************************)
(* SpecPoller: either demo page, polling a check that answers with any     *)
(* event type or with none                                                 *)
(***************************************************************************)
MaxPolls == 3

PageKinds == {"preAuthorize", "authCodeFlow"}

\* what data.type of a check answer can be: "" when there is no event yet
PollTypes ==
    {"", "oidc_interaction_initiated", "oidc_interaction_qr_scanned",
     "oidc_interaction_authorization_request_prepared",
     "oidc_interaction_authorization_code_stored",
     "oidc_interaction_authorization_code_exchanged",
     "oidc_interaction_succeeded", "oidc_interaction_failed"}

InitPoller ==
    /\ store = EmptyMap
    /\ uuidCount = 0
    /\ resp = NoResponse
    /\ authorized = EmptyMap
    /\ codesMinted = EmptyMap
    /\ tokensMinted = EmptyMap
    /\ sessions = EmptyMap
    /\ calls = [p \in Procs |-> IdleCall]
    /\ prepared = NotPrepared
    /\ topics = EmptyMap
    /\ received = <<>>
    /\ didcommScopes = {}
    /\ assuranceScopes = EmptyMap
    /\ conns = [p \in Procs |-> IdleConn]
    /\ header = NoHeader
    /\ trace = <<>>
    /\ \E kind \in PageKinds : page = OpenPage(kind)

\* one round of the timer: the request goes out while the timer runs, and
\* setState handles the answer
Poll ==
    /\ page.handle
    /\ Len(page.polls) < MaxPolls
    /\ \E type \in PollTypes : page' = [setState(page, type) EXCEPT !.polls = Append(@, type)]
    /\ UNCHANGED <<store, uuidCount, resp, authorized, codesMinted, tokensMinted, sessions, calls,
                   prepared, topics, received, didcommScopes, assuranceScopes, conns, trace, header>>

NextPoller == Poll

SpecPoller == InitPoller /\ [][NextPoller]_vars


(***************************************************************************)
(* Properties of the authorize and authorize-request endpoints (SpecAuth)  *)
(***************************************************************************)
\* the authorize-request call just served carried the state cookie that an
\* earlier Authorize call set, and the store answered
SentForAuthorized ==
    /\ resp.op = "SendAuthorizeResponse"
    /\ resp.req.cookie.present
    /\ resp.req.cookie.value \in DOMAIN authorized
    /\ resp.req.fault = "none"

\* the auth code a successful authorize-request call minted
MintedCode == Tail(resp.writes[1])

\* C1 as stated: the record read back by SendAuthorizeResponse under
\* authstate_{cookie value} holds exactly the six field values that the
\* Authorize call received, and the redirect is
\* {redirect_uri}?code={authCode}&state={state} with those values.
C1_ReadBackAsReceived ==
    SentForAuthorized =>
        LET a == authorized[resp.req.cookie.value]
            rec == jsonUnmarshalMap(store[getAuthStateKeyPrefix(resp.req.cookie.value)])
        IN /\ rec = [claims |-> a.claims, scope |-> a.scope, state |-> a.state,
                     response_type |-> a.response_type, client_id |-> a.client_id,
                     redirect_uri |-> a.redirect_uri]
           /\ resp.status = StatusFound
           /\ resp.location =
                  a.redirect_uri \o <<"?code=">> \o MintedCode \o <<"&state=">> \o a.state

\* C1 amended: the record read back holds the claims and redirect_uri that
\* Authorize received with their percent escapes decoded, and scope, state,
\* response_type and client_id as received, each with every byte that is
\* not valid UTF-8 replaced by U+FFFD; SendAuthorizeResponse answers 302 to
\* {redirect_uri}?code={authCode}&state={state} built from the stored
\* redirect_uri and state.
C1_ReadBackDecoded ==
    SentForAuthorized =>
        LET a == authorized[resp.req.cookie.value]
            rec == jsonUnmarshalMap(store[getAuthStateKeyPrefix(resp.req.cookie.value)])
            redirectURI == JSONString(PathUnescape(a.redirect_uri).val)
        IN /\ rec = [claims |-> JSONString(PathUnescape(a.claims).val),
                     scope |-> JSONString(a.scope),
                     state |-> JSONString(a.state),
                     response_type |-> JSONString(a.response_type),
                     client_id |-> JSONString(a.client_id),
                     redirect_uri |-> redirectURI]
           /\ resp.status = StatusFound
           /\ resp.location =
                  redirectURI \o <<"?code=">> \o MintedCode \o <<"&state=">> \o JSONString(a.state)

\* C1 witness: an authorize-request call redirected for an authorization
\* request whose claims carried a percent escape and whose redirect_uri
\* carried a byte that is not valid UTF-8
C1_Witness ==
    /\ SentForAuthorized
    /\ resp.status = StatusFound
    /\ authorized[resp.req.cookie.value].claims = <<"c", "%41">>
    /\ authorized[resp.req.cookie.value].redirect_uri = <<"r", "xFF">>

\* one of the four required form values of the Authorize request is empty
MissingRequired(req) ==
    req.claims = Empty \/ req.redirect_uri = Empty \/ req.client_id = Empty \/ req.state = Empty

\* C2: an Authorize call in which claims, redirect_uri, client_id or state
\* is missing or empty answers 400, writes no record (the store is the same
\* after the call as before it) and sets no cookie.
C2_MissingFieldRejected ==
    [][(resp'.op = "Authorize" /\ MissingRequired(resp'.req)) =>
          /\ resp'.status = StatusBadRequest
          /\ store' = store
          /\ resp'.writes = <<>>
          /\ resp'.cookie = NoCookie]_vars

\* C2 witness: an Authorize call with only the state missing was answered
\* 400 while the store held a record
C2_Witness ==
    /\ resp.op = "Authorize"
    /\ resp.req.state = Empty
    /\ resp.req.claims # Empty /\ resp.req.redirect_uri # Empty /\ resp.req.client_id # Empty
    /\ resp.status = StatusBadRequest
    /\ DOMAIN store # {}

(***************************************************************************)
(* Properties of the token endpoint (SpecToken)                            *)
(***************************************************************************)
\* C3: a Token call whose grant_type is not "authorization_code" (absent
\* included) answers 400 with {"error": "unsupported grant type"}, reads no
\* store key and writes none, whatever the code, the redirect_uri and the
\* store.
C3_UnsupportedGrantType ==
    [][(resp'.op = "Token" /\ resp'.req.grant_type # <<"authorization_code">>) =>
          /\ resp'.status = StatusBadRequest
          /\ resp'.body = JSONBytes(<< <<"error", <<"unsupported grant type">>>> >>)
          /\ resp'.reads = <<>>
          /\ resp'.writes = <<>>
          /\ store' = store]_vars

\* C3 witness: a Token call without grant_type was refused although its
\* code was minted and its redirect_uri is the stored one
C3_Witness ==
    /\ resp.op = "Token"
    /\ resp.req.grant_type = Empty
    /\ resp.req.code \in DOMAIN codesMinted
    /\ resp.req.redirect_uri =
           jsonUnmarshalMap(store[getAuthStateKeyPrefix(codesMinted[resp.req.code])])["redirect_uri"]
    /\ resp.status = StatusBadRequest

\* the Token call just served asked for the authorization_code grant with a
\* code that an authorize-request call minted, and the store answered
ExchangedMintedCode ==
    /\ resp.op = "Token"
    /\ resp.req.grant_type = <<"authorization_code">>
    /\ resp.req.fault = "none"
    /\ resp.req.code \in DOMAIN codesMinted

\* the form values of the Authorize call behind the code of the Token call
AuthorizeOfCode == authorized[codesMinted[resp.req.code]]

\* every access token minted so far is still in the store with its issuer id
AllTokensValid ==
    \A t \in DOMAIN tokensMinted :
        /\ getAccessTokenKeyPrefix(t) \in DOMAIN store
        /\ store[getAccessTokenKeyPrefix(t)] = TextBytes(tokensMinted[t])

\* C4 as stated: a minted code exchanged with grant_type authorization_code
\* and the redirect_uri given to Authorize yields 200 and an access token
\* that was not in the store before, at the first exchange and at every
\* later one, and all tokens minted earlier stay valid.
C4_ExchangeWithAuthorizeRedirectURI ==
    (ExchangedMintedCode /\ resp.req.redirect_uri = AuthorizeOfCode.redirect_uri) =>
        /\ resp.status = StatusOK
        /\ Len(resp.writes) = 1
        /\ Tail(resp.writes[1]) \in DOMAIN tokensMinted
        /\ AllTokensValid

\* C7 as stated: with the same non-empty redirect_uri value at Authorize
\* and at Token the Token step succeeds; with a different one Token answers
\* 500 and mints no access token.
C7_SameRedirectURISucceeds ==
    ExchangedMintedCode =>
        IF resp.req.redirect_uri = AuthorizeOfCode.redirect_uri
        THEN resp.status = StatusOK
        ELSE resp.status = StatusInternalServerError /\ resp.writes = <<>>

(***************************************************************************)
(* Properties of the credential and well-known endpoints (Spec)            *)
(***************************************************************************)
\* the bearer token of the Credential request just served
BearerToken == Tail(resp.req.authorization)

\* the Credential call just served asked for an accepted format with a
\* token that a Token call minted, and the store answered
PresentedMintedToken ==
    /\ resp.op = "Credential"
    /\ resp.req.format \in {Empty, <<"ldp_vc">>}
    /\ Head(resp.req.authorization) = "Bearer "
    /\ BearerToken \in DOMAIN tokensMinted
    /\ resp.req.fault \notin {"get"}

\* the credential of a Credential response carries a proof
CarriesProof(body) ==
    /\ body.fmt = "json"
    /\ "credential" \in DOMAIN jsonUnmarshalMap(body)
    /\ LET c == jsonUnmarshalMap(body)["credential"]
       IN c # Empty /\ c[Len(c)] = ProofToken

\* C5 as stated: Credential with a token minted by Token and the path id of
\* that Token call answers 200 with a credential carrying a proof, for
\* every such token and id.
C5_MintedTokenDelivers ==
    (PresentedMintedToken /\ resp.req.fault = "none"
        /\ resp.req.id = tokensMinted[BearerToken]) =>
        /\ resp.status = StatusOK
        /\ CarriesProof(resp.body)

\* C5 amended: Credential with a token minted by Token and the path id of
\* that Token call answers 200 with the credential carrying a proof when
\* InitiateIssuance stored a well-formed credential for that id and parsing
\* and signing succeed; when no InitiateIssuance call made that id, or the
\* stored credential is not well-formed, it answers 500.
C5_MintedTokenDeliversStored ==
    (PresentedMintedToken /\ resp.req.fault = "none"
        /\ resp.req.id = tokensMinted[BearerToken]) =>
        IF /\ resp.req.id \in DOMAIN sessions
           /\ sessions[resp.req.id].credential \in {<<"vcA">>, <<"vcB">>}
        THEN /\ resp.status = StatusOK
             /\ CarriesProof(resp.body)
             /\ jsonUnmarshalMap(resp.body)["credential"] =
                    sessions[resp.req.id].credential \o <<ProofToken>>
        ELSE resp.status = StatusInternalServerError

\* C5 witness: a credential was delivered with its proof
C5_Witness ==
    /\ PresentedMintedToken
    /\ resp.req.id = tokensMinted[BearerToken]
    /\ resp.status = StatusOK
    /\ CarriesProof(resp.body)

\* C6: Credential with a stored access token whose stored issuer id is not
\* the path id answers 403 "invalid transaction" and reads no cred_store_
\* record; and whenever Credential answers 200 for path id X, the value
\* stored for the presented token is X.
C6_IssuerIDBound ==
    /\ (PresentedMintedToken /\ tokensMinted[BearerToken] # resp.req.id) =>
           /\ resp.status = StatusForbidden
           /\ resp.body = JSONBytes(<< <<"error", <<"invalid transaction">>>> >>)
           /\ resp.reads = <<getAccessTokenKeyPrefix(BearerToken)>>
    /\ (resp.op = "Credential" /\ resp.status = StatusOK) =>
           /\ getAccessTokenKeyPrefix(BearerToken) \in DOMAIN store
           /\ store[getAccessTokenKeyPrefix(BearerToken)] = TextBytes(resp.req.id)

\* C6 witness: a token minted for another id was presented at the path of
\* an issuer id that has a pending credential, and was refused
C6_Witness ==
    /\ PresentedMintedToken
    /\ tokensMinted[BearerToken] # resp.req.id
    /\ getCredStoreKeyPrefix(resp.req.id) \in DOMAIN store
    /\ resp.status = StatusForbidden

\* the keys for which InitiateIssuance answered 200
Issued == {k \in DOMAIN sessions : sessions[k].status = StatusOK}

\* the well-known document of issuerURL U and key K
IsWellKnownOf(doc, U, K) ==
    /\ doc.fmt = "json"
    /\ LET d == jsonUnmarshalMap(doc)
       IN /\ DOMAIN d = {"issuer", "authorization_endpoint", "token_endpoint",
                         "credential_endpoint", "credential_manifests"}
          /\ d["issuer"] = U \o <<"/">> \o K
          /\ d["authorization_endpoint"] = U \o <<"/">> \o K \o <<"/oidc/authorize">>
          /\ d["token_endpoint"] = U \o <<"/">> \o K \o <<"/oidc/token">>
          /\ d["credential_endpoint"] = U \o <<"/">> \o K \o <<"/oidc/credential">>

\* C8: once InitiateIssuance has answered 200 with key K for issuerURL U,
\* in every later state the store holds under K the document whose issuer
\* is U/K and whose endpoints are U/K/oidc/authorize, U/K/oidc/token and
\* U/K/oidc/credential, and WellKnownConfiguration(K) answers 200 with
\* exactly that document.
C8_WellKnownStable ==
    /\ \A k \in Issued :
           /\ k \in DOMAIN store
           /\ IsWellKnownOf(store[k], sessions[k].issuerURL, k)
    /\ (resp.op = "WellKnownConfiguration" /\ resp.req.id \in Issued
           /\ resp.req.fault = "none") =>
           /\ resp.status = StatusOK
           /\ resp.body = store[resp.req.id]

\* C8 witness: the document of an issued key was served after the whole
\* authorize, authorize-request, token sequence had run
C8_Witness ==
    /\ resp.op = "WellKnownConfiguration"
    /\ resp.req.id \in Issued
    /\ resp.status = StatusOK
    /\ DOMAIN tokensMinted # {}

\* C9 as stated: WellKnownConfiguration(id) answers 200 only for an id for
\* which InitiateIssuance stored a well-known document and 500 for every
\* other id.
C9_OnlyWellKnownDocuments ==
    resp.op = "WellKnownConfiguration" =>
        IF resp.req.id \in DOMAIN sessions /\ resp.req.fault = "none"
        THEN resp.status = StatusOK
        ELSE resp.status = StatusInternalServerError

(***************************************************************************)
(* Properties of the deep link (SpecIssuance)                              *)
(***************************************************************************)
\* InitiateIssuance just answered 200
Initiated == resp.op = "InitiateIssuance" /\ resp.status = StatusOK

\* the key of the InitiateIssuance call just served, and its issuer
InitiatedKey == resp.writes[1]

InitiatedIssuer == resp.req.issuerURL \o <<"/">> \o InitiatedKey

\* the wallet URL the call had to use
WalletURLUsed ==
    IF resp.req.walletInitIssuanceURL = Empty
    THEN DefaultWalletURL ELSE resp.req.walletInitIssuanceURL

\* the parameters of the deep link, in the order they appear in it
DeepLinkParams == ParseQuery(Cut(resp.body.text, "?")[2])

\* the values of one parameter of a query, in order
ParamValues(q, key) ==
    LET es == SelectSeq(q, LAMBDA e : e[1] = <<key>>)
    IN [i \in DOMAIN es |-> es[i][2]]

\* the elements of a CSV field as C10 reads it: none when the field is empty
CSVElements(csv) == IF csv = Empty THEN <<>> ELSE Split(csv, ",")

\* the position of a parameter name in byte order
KeyRank(key) == CHOOSE i \in DOMAIN SortedQueryKeys : <<SortedQueryKeys[i]>> = key

C11_ExpiresIn3600 ==
    (resp.op = "Token" /\ resp.status = StatusOK) =>
        LET r == jsonUnmarshalMap(resp.body)
        IN /\ DOMAIN r = {"token_type", "access_token", "expires_in"}
           /\ r["token_type"] = <<"Bearer">>
           /\ Len(resp.writes) = 1
           /\ Head(resp.writes[1]) = "access_token_"
           /\ r["access_token"] = Tail(resp.writes[1])
           /\ r["expires_in"] = <<"3600">>

(***************************************************************************)
(* Properties of the Authorization header (SpecCredential)                 *)
(***************************************************************************)
\* the Credential call just served asked for an accepted format, so the
\* handler went on to the Authorization header
HeaderExamined ==
    /\ resp.op = "Credential"
    /\ resp.req.format \in {Empty, <<"ldp_vc">>}
    /\ resp.req.fault = "none"

\* the header is exactly "Bearer " followed by a non-empty token
WellFormedBearer(h) ==
    /\ Len(h) >= 2
    /\ h[1] = "Bearer "
    /\ \A i \in 2..Len(h) : h[i] # "Bearer "

\* the header is well-formed and its token has no access_token_ record
UnknownToken(h) ==
    WellFormedBearer(h) /\ getAccessTokenKeyPrefix(Tail(h)) \notin DOMAIN store

\* C12 as stated: a header that is not exactly "Bearer " followed by a
\* non-empty token yields 400, except "Bearer " with an empty token, which
\* yields 403; in those cases no store read happens.
C12_OnlyExactBearer ==
    (HeaderExamined /\ ~WellFormedBearer(resp.req.authorization)) =>
        /\ resp.status = IF resp.req.authorization = <<"Bearer ">>
                         THEN StatusForbidden ELSE StatusBadRequest
        /\ resp.reads = <<>>

\* C13 as stated: Credential with a missing bearer token (no header, or
\* "Bearer " with nothing after it) or with a bearer token that is not in
\* the store responds 401 or 403.
C13_MissingOrUnknownRefused ==
    (HeaderExamined /\ (resp.req.authorization \in {Empty, <<"Bearer ">>}
                          \/ UnknownToken(resp.req.authorization))) =>
        resp.status \in {StatusUnauthorized, StatusForbidden}

\* C13 amended: Credential without an Authorization header responds 400
\* "malformed token", with "Bearer " and nothing after it 403 "invalid
\* token", and with a bearer token that is not in the store 400; it never
\* responds 401.
C13_MissingOrUnknownStatus ==
    /\ (HeaderExamined /\ resp.req.authorization = Empty) =>
           /\ resp.status = StatusBadRequest
           /\ resp.body = JSONBytes(<< <<"error", <<"malformed token">>>> >>)
    /\ (HeaderExamined /\ resp.req.authorization = <<"Bearer ">>) =>
           /\ resp.status = StatusForbidden
           /\ resp.body = JSONBytes(<< <<"error", <<"invalid token">>>> >>)
    /\ (HeaderExamined /\ UnknownToken(resp.req.authorization)) =>
           resp.status = StatusBadRequest
    /\ resp.op = "Credential" => resp.status # StatusUnauthorized

\* C13 witness: a request without an Authorization header was refused
\* with 400 at the path of an issuer id whose credential is pending, while
\* a minted token was in the store
C13_Witness ==
    /\ HeaderExamined
    /\ resp.req.authorization = Empty
    /\ resp.status = StatusBadRequest
    /\ getCredStoreKeyPrefix(resp.req.id) \in DOMAIN store
    /\ DOMAIN tokensMinted # {}

\* C14: Credential with a well-formed bearer token that has no
\* access_token_ record responds 400; the only key read is the
\* access_token_ key, so the cred_store_ record of the path id is not read,
\* and the body is the error envelope, not that record.
C14_UnknownTokenRejected ==
    (HeaderExamined /\ UnknownToken(resp.req.authorization)) =>
        /\ resp.status = StatusBadRequest
        /\ resp.reads = <<getAccessTokenKeyPrefix(Tail(resp.req.authorization))>>
        /\ resp.body = JSONBytes(<< <<"error", <<"unsupported format requested">>>> >>)
        /\ getCredStoreKeyPrefix(resp.req.id) \in DOMAIN store =>
               resp.body # store[getCredStoreKeyPrefix(resp.req.id)]

\* C14 witness: a token that is not stored was presented at the path of an
\* issuer id whose credential is pending, after a token had been minted
\* for that id
C14_Witness ==
    /\ HeaderExamined
    /\ resp.req.authorization = <<"Bearer ", "x">>
    /\ getCredStoreKeyPrefix(resp.req.id) \in DOMAIN store
    /\ \E t \in DOMAIN tokensMinted : tokensMinted[t] = resp.req.id
    /\ resp.status = StatusBadRequest

(***************************************************************************)
(* Properties of the authorize-request endpoint (SpecAuth)                 *)
(***************************************************************************)
\* C15: SendAuthorizeResponse without a state cookie answers 403, and with
\* a state cookie whose value has no authstate_ record 400; in both cases
\* the store is left as it was (no authcode_ record is written) and the
\* response carries no Location.
C15_NoCookieOrUnknownState ==
    [][resp'.op = "SendAuthorizeResponse" =>
          /\ ~resp'.req.cookie.present =>
                 /\ resp'.status = StatusForbidden
                 /\ resp'.body = TextBytes(<<"invalid state">>)
                 /\ resp'.reads = <<>>
                 /\ resp'.writes = <<>>
                 /\ resp'.location = NoLocation
                 /\ store' = store
          /\ (/\ resp'.req.cookie.present
              /\ getAuthStateKeyPrefix(resp'.req.cookie.value) \notin DOMAIN store) =>
                 /\ resp'.status = StatusBadRequest
                 /\ resp'.body = TextBytes(<<"invalid request">>)
                 /\ resp'.writes = <<>>
                 /\ resp'.location = NoLocation
                 /\ store' = store]_vars

\* C15 witness: a state cookie with a value that was never handed out was
\* refused with 400 while the store held the record of another state
C15_Witness ==
    /\ resp.op = "SendAuthorizeResponse"
    /\ resp.req.cookie = StateCookie(<<"x">>)
    /\ resp.req.fault = "none"
    /\ resp.status = StatusBadRequest
    /\ DOMAIN authorized # {}

\* C16: a successful SendAuthorizeResponse adds exactly one record to the
\* store, under a key authcode_{authCode} that was not there, whose value is
\* the state cookie value and not the request record; it answers 302 to
\* {redirect_uri}?code={authCode}&state={state}, with the redirect_uri and
\* the state of the record Authorize stored, the state being the client's
\* and not the internal authState.
C16_CodeForCookieValue ==
    [][(resp'.op = "SendAuthorizeResponse" /\ resp'.status = StatusFound) =>
          LET authState == resp'.req.cookie.value
              skey == getAuthStateKeyPrefix(authState)
              rec == jsonUnmarshalMap(store[skey])
              ckey == resp'.writes[1]
          IN /\ Len(resp'.writes) = 1
             /\ Head(ckey) = "authcode_"
             /\ ckey \notin DOMAIN store
             /\ DOMAIN store' = DOMAIN store \cup {ckey}
             /\ \A k \in DOMAIN store : store'[k] = store[k]
             /\ store'[ckey] = TextBytes(authState)
             /\ store'[ckey] # store[skey]
             /\ resp'.location = rec["redirect_uri"] \o <<"?code=">> \o Tail(ckey)
                                     \o <<"&state=">> \o rec["state"]
             /\ rec["state"] = JSONString(authorized[authState].state)
             /\ rec["state"] # authState]_vars

\* C16 witness: a code was minted for an authorization request with
\* redirect_uri "r" and the redirect carries the client's state "t"
C16_Witness ==
    /\ resp.op = "SendAuthorizeResponse"
    /\ resp.status = StatusFound
    /\ resp.req.cookie.value \in DOMAIN authorized
    /\ authorized[resp.req.cookie.value].redirect_uri = <<"r">>
    /\ resp.location = <<"r", "?code=">> \o Tail(resp.writes[1]) \o <<"&state=", "t">>

(***************************************************************************)
(* Properties of the token endpoint's lookups (SpecToken)                  *)
(***************************************************************************)
\* C17: Token with grant_type authorization_code and a code that has no
\* authcode_ record answers 400, and so does a code whose authstate_ record
\* cannot be read; and a Token call that does not answer 200 writes no
\* access_token_ record and leaves the store as it was.
C17_FailedTokenWritesNothing ==
    [][resp'.op = "Token" =>
          /\ (/\ resp'.req.grant_type = <<"authorization_code">>
              /\ getAuthCodeKeyPrefix(resp'.req.code) \notin DOMAIN store) =>
                 /\ resp'.status = StatusBadRequest
                 /\ resp'.body = JSONBytes(<< <<"error", <<"invalid state">>>> >>)
          /\ (/\ resp'.req.grant_type = <<"authorization_code">>
              /\ getAuthCodeKeyPrefix(resp'.req.code) \in DOMAIN store
              /\ resp'.req.fault = "getstate") =>
                 /\ resp'.status = StatusBadRequest
                 /\ resp'.body = JSONBytes(<< <<"error", <<"invalid request">>>> >>)
          /\ resp'.status # StatusOK =>
                 /\ store' = store
                 /\ resp'.writes = <<>>
                 /\ tokensMinted' = tokensMinted]_vars

\* C17 witness: a minted code was refused with 400 because its authstate_
\* record could not be read, while the store held an access token
C17_Witness ==
    /\ resp.op = "Token"
    /\ resp.req.grant_type = <<"authorization_code">>
    /\ resp.req.code \in DOMAIN codesMinted
    /\ resp.req.fault = "getstate"
    /\ resp.status = StatusBadRequest
    /\ DOMAIN tokensMinted # {}

(***************************************************************************)
(* Properties of the auth codes of one authState (Spec)                    *)
(***************************************************************************)
\* the auth codes minted for the state cookie value authState
CodesOf(authState) == {c \in DOMAIN codesMinted : codesMinted[c] = authState}

\* the store holds what Token needs to exchange the code: its authcode_
\* record, and the authstate_ record that one names
Exchangeable(c) ==
    /\ getAuthCodeKeyPrefix(c) \in DOMAIN store
    /\ store[getAuthCodeKeyPrefix(c)] = TextBytes(codesMinted[c])
    /\ getAuthStateKeyPrefix(codesMinted[c]) \in DOMAIN store

\* the Token call just served exchanged a minted code
ExchangedCode ==
    /\ resp.op = "Token"
    /\ resp.status = StatusOK
    /\ resp.req.code \in DOMAIN codesMinted

\* C18 as stated: an authState has at most one exchangeable auth code at
\* any time: when a code has been exchanged at Token, no other code minted
\* for the same state cookie is exchangeable.
C18_OneCodeInFlight ==
    ExchangedCode =>
        \A c \in CodesOf(codesMinted[resp.req.code]) \ {resp.req.code} : ~Exchangeable(c)

\* C18 amended: every SendAuthorizeResponse call carrying the same state
\* cookie mints another auth code and none is ever invalidated: every code
\* minted so far stays exchangeable, and Token with any of them and the
\* stored redirect_uri answers 200, however many codes the authState has.
C18_EveryCodeExchangeable ==
    /\ \A c \in DOMAIN codesMinted : Exchangeable(c)
    /\ (resp.op = "SendAuthorizeResponse" /\ resp.status = StatusFound) =>
           /\ Tail(resp.writes[1]) \in DOMAIN codesMinted
           /\ codesMinted[Tail(resp.writes[1])] = resp.req.cookie.value
    /\ (/\ resp.op = "Token"
        /\ resp.req.grant_type = <<"authorization_code">>
        /\ resp.req.fault = "none"
        /\ resp.req.code \in DOMAIN codesMinted
        /\ resp.req.redirect_uri =
               jsonUnmarshalMap(store[getAuthStateKeyPrefix(codesMinted[resp.req.code])])["redirect_uri"])
       => resp.status = StatusOK

\* C18 witness: a code was exchanged at Token while a second code of the
\* same authState was in the store
C18_Witness ==
    /\ ExchangedCode
    /\ \E c \in CodesOf(codesMinted[resp.req.code]) : c # resp.req.code /\ Exchangeable(c)

(***************************************************************************)
(* Properties of concurrent Token requests (SpecConcurrent)                *)
(***************************************************************************)
\* the request of goroutine p names a minted code, the redirect_uri stored
\* for it and an issuer id with a pending credential
ValidCall(p) ==
    /\ calls[p].pc # "idle"
    /\ calls[p].req.grant_type = <<"authorization_code">>
    /\ calls[p].req.code \in DOMAIN codesMinted
    /\ calls[p].req.redirect_uri =
           jsonUnmarshalMap(store[getAuthStateKeyPrefix(codesMinted[calls[p].req.code])])["redirect_uri"]
    /\ calls[p].req.fault = "none"

\* both goroutines have answered requests with the same code
BothDoneSameCode ==
    /\ \A p \in Procs : calls[p].pc = "done" /\ ValidCall(p)
    /\ calls[1].req.code = calls[2].req.code

\* C19: two Token requests with the same valid code and the stored
\* redirect_uri, their store reads and writes interleaved in any order,
\* both answer 200, each with its own access token, distinct from the
\* other's; both tokens are in the store with the path id of their request,
\* and Credential, called with either token at that path id, accepts it.
C19_ConcurrentTokensBothSucceed ==
    /\ \A p \in Procs :
           (calls[p].pc = "done" /\ ValidCall(p)) =>
               /\ calls[p].status = StatusOK
               /\ calls[p].body = tokenResponse(calls[p].token)
               /\ getAccessTokenKeyPrefix(calls[p].token) \in DOMAIN store
               /\ store[getAccessTokenKeyPrefix(calls[p].token)] = TextBytes(calls[p].req.id)
    /\ BothDoneSameCode => calls[1].token # calls[2].token
    /\ (/\ BothDoneSameCode
        /\ resp.op = "Credential"
        /\ \E p \in Procs : /\ Tail(resp.req.authorization) = calls[p].token
                             /\ resp.req.id = calls[p].req.id)
       => /\ resp.status = StatusOK
          /\ CarriesProof(resp.body)

\* C19 witness: both requests had read the code and the authorization
\* request before either wrote its token (the second goroutine was at its
\* Put when the first one wrote), both answered, and Credential has just
\* accepted the token of the second for the path id both used
C19_Witness ==
    /\ BothDoneSameCode
    /\ calls[1].peer = "put"
    /\ calls[1].req.id = calls[2].req.id
    /\ resp.op = "Credential"
    /\ Tail(resp.req.authorization) = calls[2].token
    /\ resp.req.id = calls[2].req.id
    /\ resp.status = StatusOK

(***************************************************************************)
(* Properties of the records of the store (Spec)                           *)
(***************************************************************************)
\* C20: a record of the store never changes and never goes away: every
\* step of every endpoint leaves each key the store holds with the value it
\* had, and each key an endpoint writes was not in the store before.
C20_RecordsImmutable ==
    [][/\ \A k \in DOMAIN store : k \in DOMAIN store' /\ store'[k] = store[k]
       /\ resp' # resp =>
              \A i \in DOMAIN resp'.writes : resp'.writes[i] \notin DOMAIN store]_vars

\* the prefixes of the keys in the store
KeyKinds == {Head(k) : k \in DOMAIN store}

\* C20 witness: the store holds the records of all four operations (the
\* issuer configuration and pending credential, an authorization request,
\* an auth code and an access token), and an operation has written after
\* the first of them was stored
C20_Witness ==
    /\ {"cred_store_", "authstate_", "authcode_", "access_token_"} \subseteq KeyKinds
    /\ \E k \in DOMAIN sessions : k \in DOMAIN store
    /\ resp.op = "Token"
    /\ resp.status = StatusOK

(***************************************************************************)
(* The body of a failure response (SpecAuth)                               *)
(***************************************************************************)
\* the endpoints of the issuance flow that the error convention covers
OIDCEndpoints == {"Authorize", "SendAuthorizeResponse", "Token", "Credential"}

\* the body is the envelope {"error": "<message>"}
IsErrorEnvelope(body) ==
    /\ body.fmt = "json"
    /\ Len(body.obj) = 1
    /\ body.obj[1][1] = "error"

\* C21: every failure of authorize, authorize-request, token and credential
\* is answered with the JSON envelope {"error": "<message>"} and the failure
\* status code.
C21_FailuresAreJSONEnvelopes ==
    (resp.op \in OIDCEndpoints /\ resp.status >= StatusBadRequest) =>
        IsErrorEnvelope(resp.body)

(***************************************************************************)
(* The store across a Credential call (Spec)                               *)
(***************************************************************************)
\* C22: a Credential call, whatever its outcome, leaves every key of the
\* store with the value it held; the pending credential of a delivery is
\* still the bytes InitiateIssuance stored, and the delivered credential is
\* those bytes signed.
C22_CredentialWritesNothing ==
    [][(resp' # resp /\ resp'.op = "Credential") =>
           /\ store' = store
           /\ resp'.status = StatusOK =>
                  LET id == resp'.req.id
                      pending == store'[getCredStoreKeyPrefix(id)]
                  IN /\ id \in DOMAIN sessions
                     /\ pending = TextBytes(sessions[id].credential)
                     /\ resp'.body.obj[1] =
                            <<"credential", signVCWithED25519(sessions[id].credential)>>]_vars

\* C22 witness: a Credential call that reached the signing step failed
\* there, and the pending credential is still the one InitiateIssuance stored
C22_Witness ==
    /\ resp.op = "Credential"
    /\ resp.req.fault = "sign"
    /\ resp.status = StatusInternalServerError
    /\ resp.req.id \in DOMAIN sessions
    /\ store[getCredStoreKeyPrefix(resp.req.id)] = TextBytes(sessions[resp.req.id].credential)

(***************************************************************************)
(* The credential prepareCredential builds (SpecPrepare)                   *)
(***************************************************************************)
\* the member of the marshalled credential with the given name
CredentialMember(name) ==
    LET obj == prepared.bytes.obj
    IN obj[CHOOSE i \in DOMAIN obj : obj[i][1] = name][2]

\* prepareCredential has returned a credential
Prepared == prepared.pc = "returned" /\ prepared.err = "none"

\* the call was given a subject whose vcmetadata is a map with an
\* "@context" list
HasContextOverride ==
    /\ "vcmetadata" \in DOMAIN prepared.req.subject
    /\ prepared.req.subject["vcmetadata"].kind = "map"
    /\ "@context" \in DOMAIN prepared.req.subject["vcmetadata"].map
    /\ prepared.req.subject["vcmetadata"].map["@context"].kind = "list"

ContextOverride == prepared.req.subject["vcmetadata"].map["@context"].list

\* C23 as stated: for every scope, a credential prepared from a subject
\* whose vcmetadata carries an "@context" list has exactly that list as its
\* @context.
C23_ContextOverrideEveryScope ==
    (Prepared /\ HasContextOverride) => CredentialMember("@context") = ContextOverride

\* C23: for every scope but "subject_data", a credential prepared from a
\* subject whose vcmetadata carries an "@context" list has exactly that list
\* as its @context, with none of the default contexts; for the scope
\* "subject_data" the @context is the credential and citizenship contexts.
C23_ContextOverride ==
    (Prepared /\ HasContextOverride) =>
        CredentialMember("@context") =
            IF prepared.req.scope = externalScopeQueryParam
            THEN <<credentialContext, citizenshipContext>>
            ELSE ContextOverride

\* C23 witness: a credential of another scope prepared with the override
\* ["a", "b"] has the @context ["a", "b"]
C23_Witness ==
    /\ Prepared
    /\ HasContextOverride
    /\ ContextOverride = <<"a", "b">>
    /\ prepared.req.scope # externalScopeQueryParam
    /\ CredentialMember("@context") = <<"a", "b">>

\* the name among the custom fields of the credential is s
DisplayNameIs(s) ==
    /\ "name" \in DOMAIN CredentialMember("customFields")
    /\ CredentialMember("customFields")["name"] = StringValue(s)

\* the subject map without the CMS fields and with a blank id
Stripped(m) ==
    [k \in (DOMAIN m \cup {"id"}) \ {"created_at", "updated_at", "userid", "vcmetadata"} |->
        IF k = "id" THEN StringValue("") ELSE m[k]]

\* the subject carries a map under "vccredentialsubject"
HasSubjectOverride ==
    /\ "vccredentialsubject" \in DOMAIN prepared.req.subject
    /\ prepared.req.subject["vccredentialsubject"].kind = "map"

\* C24 as stated: with the scope "subject_data" the credential has the types
\* VerifiableCredential and PermanentResidentCard, the credential and
\* citizenship contexts, subject["subjectData"] as its subject and the name
\* "Permanent Resident Card", whatever else the subject map carries; with
\* another scope it has the types VerifiableCredential and the scope, and
\* the subject map as its subject.
C24_ScopeBranches ==
    Prepared =>
        IF prepared.req.scope = "subject_data"
        THEN /\ CredentialMember("type") = <<"VerifiableCredential", "PermanentResidentCard">>
             /\ CredentialMember("@context") = <<credentialContext, citizenshipContext>>
             /\ CredentialMember("credentialSubject") = MapGet(prepared.req.subject, "subjectData")
             /\ DisplayNameIs("Permanent Resident Card")
        ELSE /\ CredentialMember("type") = <<"VerifiableCredential", prepared.req.scope>>
             /\ CredentialMember("credentialSubject") = MapValue(prepared.subject)

\* C24: the same, but when the subject carries a map under
\* "vccredentialsubject" that map is the credential subject for every
\* scope; otherwise the subject is subject["subjectData"] for the scope
\* "subject_data" and, for another scope, the subject map without its CMS
\* fields and with a blank id.
C24_ScopeBranchesUnlessOverridden ==
    Prepared =>
        /\ IF prepared.req.scope = "subject_data"
           THEN /\ CredentialMember("type") = <<"VerifiableCredential", "PermanentResidentCard">>
                /\ CredentialMember("@context") = <<credentialContext, citizenshipContext>>
                /\ DisplayNameIs("Permanent Resident Card")
           ELSE CredentialMember("type") = <<"VerifiableCredential", prepared.req.scope>>
        /\ CredentialMember("credentialSubject") =
               IF HasSubjectOverride THEN prepared.req.subject["vccredentialsubject"]
               ELSE IF prepared.req.scope = "subject_data"
               THEN MapGet(prepared.req.subject, "subjectData")
               ELSE MapValue(Stripped(prepared.req.subject))

\* C24 witness: a credential of the scope "subject_data" prepared from a
\* subject with vcmetadata that names it and overrides the context, with
\* subjectData and without vccredentialsubject
C24_Witness ==
    /\ Prepared
    /\ prepared.req.scope = "subject_data"
    /\ HasContextOverride
    /\ "name" \in DOMAIN prepared.req.subject["vcmetadata"].map
    /\ "subjectData" \in DOMAIN prepared.req.subject
    /\ ~HasSubjectOverride
    /\ CredentialMember("credentialSubject") = prepared.req.subject["subjectData"]
    /\ DisplayNameIs("Permanent Resident Card")

(***************************************************************************)
(* The event relay (SpecTopics)                                            *)
(***************************************************************************)
\* the events accepted for the transaction id tx, in the order received
AcceptedFor(tx) == SelectSeq(received, LAMBDA e : e.txID = tx)

\* what a poll of tx is due: the last event accepted for it, or the empty
\* object when none was
LatestFor(tx) ==
    IF AcceptedFor(tx) = <<>> THEN JSONBytes(<<>>)
    ELSE LET e == AcceptedFor(tx)[Len(AcceptedFor(tx))]
         IN JSONBytes(<< <<"txID", tx>>, <<"type", e.type>> >>)

\* C25: CheckTopics answers, for each transaction id, with the event most
\* recently accepted by ReceiveTopics for that id, or with an empty object
\* when none was accepted; what was received for other ids does not
\* matter.
C25_LatestEventPerTransaction ==
    /\ resp.op = "CheckTopics" => resp.body = LatestFor(resp.req.tx)
    /\ \A tx \in TxIDs \cup {"tx0"} : topicsGet(topics, tx) = LatestFor(tx)

\* C25 witness: two events were accepted for one transaction and a later
\* one for another, and the poll of the first is answered with its second
\* event
C25_Witness ==
    /\ resp.op = "CheckTopics"
    /\ Len(AcceptedFor(resp.req.tx)) = 2
    /\ AcceptedFor(resp.req.tx)[1].type # AcceptedFor(resp.req.tx)[2].type
    /\ received[Len(received)].txID # resp.req.tx
    /\ resp.body.obj[2] = <<"type", AcceptedFor(resp.req.tx)[2].type>>

(***************************************************************************)
(* The order of the steps of an authorization attempt (Spec)               *)
(***************************************************************************)
\* the records a step adds to the store
Added == DOMAIN store' \ DOMAIN store

\* C26: the steps of an attempt are taken in order. An authcode_ record is
\* written only when the authstate_ record it names is already stored; an
\* access_token_ record is written only by a Token call whose code names a
\* stored authcode_ record that names a stored authstate_ record; and a
\* credential is delivered only to a token whose access_token_ record is
\* already stored.
C26_StepsInOrder ==
    [][/\ \A k \in Added :
              /\ Head(k) = "authcode_" =>
                     getAuthStateKeyPrefix(store'[k].text) \in DOMAIN store
              /\ Head(k) = "access_token_" =>
                     /\ resp'.op = "Token"
                     /\ getAuthCodeKeyPrefix(resp'.req.code) \in DOMAIN store
                     /\ getAuthStateKeyPrefix(store[getAuthCodeKeyPrefix(resp'.req.code)].text)
                            \in DOMAIN store
       /\ (resp' # resp /\ resp'.op = "Credential" /\ resp'.status = StatusOK) =>
              getAccessTokenKeyPrefix(Split(resp'.req.authorization, "Bearer ")[2])
                  \in DOMAIN store]_vars

\* C26 witness: a Token call made with a code that was never issued, while
\* an authorization request is stored, was refused and no access token is
\* stored
C26_Witness ==
    /\ resp.op = "Token"
    /\ resp.req.code = <<"x">>
    /\ resp.status = StatusBadRequest
    /\ "authstate_" \in KeyKinds
    /\ "access_token_" \notin KeyKinds

(***************************************************************************)
(* The path id of an authorization attempt (SpecBinding)                   *)
(***************************************************************************)
\* the path ids of the Authorize calls made; SpecBinding makes one, and
\* every code and token of the behaviour comes from it
AuthorizeIDs == {authorized[s].id : s \in DOMAIN authorized}

\* C27: a credential is delivered at a path id only to a token whose code
\* came from an Authorize call at that path id: a code of an Authorize call
\* at path id A is not exchanged at the Token endpoint of another path id B
\* for a token that retrieves the pending credential of B.
C27_TokenBoundToAuthorizeID ==
    (resp.op = "Credential" /\ resp.status = StatusOK) => AuthorizeIDs = {resp.req.id}

C29_FailedIssuanceWritesNothing ==
    \A k \in DOMAIN sessions :
        sessions[k].status # StatusOK =>
            /\ k \notin DOMAIN store
            /\ getCredStoreKeyPrefix(k) \notin DOMAIN store

(***************************************************************************)
(* The shared state of concurrent handlers (SpecDIDComm)                   *)
(***************************************************************************)
\* C30: the store is the only state of the Operation that concurrent
\* requests share and change: two requests to the DIDComm init endpoint
\* served at the same time are never inside an assignment to the same
\* variable of the Operation at once, and none of them ends in a fatal
\* error of the runtime.
C30_StoreOnlySharedState ==
    /\ \A p \in Procs :
           conns[p].pc \in {"assignDidcommScopes", "assignAssuranceScopes"} =>
               conns[Peer(p)].pc # conns[p].pc
    /\ \A p \in Procs : conns[p].pc # "fatal"

(***************************************************************************)
(* C31                                                                     *)
(***************************************************************************)
\* C31: a handler stops at its first terminal response: once it has written
\* an error response or a redirect, it makes no further call in that request
\* (no store access, no cookie read, no downstream call, no second response
\* write); this includes the callback handler given error=access_denied.
C31_StopsAtFirstResponse ==
    \A i \in 1..Len(trace) : trace[i] \in ResponseWrites => i = Len(trace)

(***************************************************************************)
(* C32                                                                     *)
(***************************************************************************)
\* the keys each kind of record was written under
RecordKeys ==
    [wellKnown |-> DOMAIN sessions,
     credStore |-> {getCredStoreKeyPrefix(k) : k \in DOMAIN sessions},
     authState |-> {getAuthStateKeyPrefix(s) : s \in DOMAIN authorized},
     authCode |-> {getAuthCodeKeyPrefix(c) : c \in DOMAIN codesMinted},
     accessToken |-> {getAccessTokenKeyPrefix(t) : t \in DOMAIN tokensMinted},
     transaction |-> {k \in DOMAIN store :
                         /\ store[k].fmt = "json"
                         /\ store[k].obj # <<>>
                         /\ store[k].obj[1][1] = "UserID"}]

\* C32: store keys of different record kinds never coincide (authorization
\* request, auth code, access token, pending credential, well-known document,
\* transaction datum), so an operation given an id generated by this service
\* never reads a record of a kind other than the one it looks up.
C32_KindsPartitioned ==
    /\ \A a \in DOMAIN RecordKeys, b \in DOMAIN RecordKeys :
           a # b => RecordKeys[a] \cap RecordKeys[b] = {}
    /\ resp.op = "WellKnownConfiguration" /\ resp.req.id \in UUIDs /\ resp.status = StatusOK =>
           resp.req.id \in RecordKeys.wellKnown

(***************************************************************************)
(* C33                                                                     *)
(***************************************************************************)
\* the Credential requests of the holders of the minted tokens: each token
\* with the path id it was minted for
TokenHolderRequests ==
    {CredentialRequest(<<"ldp_vc">>, <<"Bearer ">> \o t, tokensMinted[t], "none") :
         t \in DOMAIN tokensMinted}

\* Credential answers 200 to the request in the current state
Delivers(req) == ENABLED (oidcCredentialEndpoint(req) /\ resp'.status = StatusOK)

\* C33: an access token is not consumed by use: a Credential call that is
\* answered 200 is answered 200 again after every step of the service, a
\* Credential call with the same token and path id included, and no step
\* changes or removes an access_token_ record that Token has written.
C33_TokenNotConsumed ==
    [][/\ \A req \in TokenHolderRequests : Delivers(req) => Delivers(req)'
       /\ \A t \in DOMAIN tokensMinted :
              /\ getAccessTokenKeyPrefix(t) \in DOMAIN store'
              /\ store'[getAccessTokenKeyPrefix(t)] = store[getAccessTokenKeyPrefix(t)]]_vars

\* C33 witness: a minted token was presented and Credential answered 200,
\* in a state where the same request would be answered 200 again
C33_Witness ==
    /\ resp.op = "Credential"
    /\ resp.status = StatusOK
    /\ resp.req \in TokenHolderRequests
    /\ Delivers(resp.req)

(***************************************************************************)
(* C34                                                                     *)
(***************************************************************************)
\* the response is the error envelope with this status and message, written
\* after these store reads
RefusedWith(status, msg, reads) ==
    /\ resp.status = status
    /\ resp.body = JSONBytes(<< <<"error", <<msg>>>> >>)
    /\ resp.reads = reads

\* C34: Credential refuses a format other than empty or "ldp_vc" with 400
\* before it examines the Authorization header and before any store read;
\* with an accepted format each later check (header shape, empty token,
\* token lookup, issuer-id match, credential lookup) is reached only when
\* all earlier checks passed, and a missing cred_store_{id} record for a
\* validly authorized request yields 500.
C34_ChecksInOrder ==
    resp.op = "Credential" =>
        LET req == resp.req
            authHeader == Split(req.authorization, "Bearer ")
            token == authHeader[2]
            tkey == <<"access_token_">> \o token
            vkey == <<"cred_store_">> \o req.id
        IN
        IF req.format \notin {Empty, <<"ldp_vc">>}
        THEN RefusedWith(StatusBadRequest, "unsupported format requested", <<>>)
        ELSE IF Len(authHeader) # 2
        THEN RefusedWith(StatusBadRequest, "malformed token", <<>>)
        ELSE IF token = Empty
        THEN RefusedWith(StatusForbidden, "invalid token", <<>>)
        ELSE IF token \notin DOMAIN tokensMinted
        THEN resp.status = StatusBadRequest /\ resp.reads = <<tkey>>
        ELSE IF tokensMinted[token] # req.id
        THEN RefusedWith(StatusForbidden, "invalid transaction", <<tkey>>)
        ELSE IF req.id \notin DOMAIN sessions
        THEN RefusedWith(StatusInternalServerError, "failed to get credential", <<tkey, vkey>>)
        ELSE resp.reads = <<tkey, vkey>>

\* C34 witness: a minted token was presented with the path id it was minted
\* for, no credential is pending under that id, and Credential answered 500
C34_Witness ==
    /\ resp.op = "Credential"
    /\ resp.req.format \in {Empty, <<"ldp_vc">>}
    /\ Len(Split(resp.req.authorization, "Bearer ")) = 2
    /\ Split(resp.req.authorization, "Bearer ")[2] \in DOMAIN tokensMinted
    /\ tokensMinted[Split(resp.req.authorization, "Bearer ")[2]] = resp.req.id
    /\ resp.req.id \notin DOMAIN sessions
    /\ resp.status = StatusInternalServerError

(***************************************************************************)
(* C35, C36                                                                *)
(***************************************************************************)
\* C35: prepareCredential is a pure transform of its inputs: it leaves the
\* caller's subject map unchanged, both when it returns a credential and
\* when it returns an error because the issuer profile cannot be fetched.
C35_SubjectUnchanged ==
    (prepared.pc = "returned" /\ prepared.err \in {"none", "profile"}) =>
        prepared.subject = prepared.req.subject

\* the keys the CMS keeps for its own bookkeeping
CMSFields == {"created_at", "updated_at", "userid", "vcmetadata"}

\* the value is a map with none of the CMS fields and a blank id
IsStripped(v) ==
    /\ v.kind = "map"
    /\ DOMAIN v.map \cap CMSFields = {}
    /\ "id" \in DOMAIN v.map
    /\ v.map["id"] = StringValue("")

\* C36 as stated: the subject embedded in a prepared credential never has
\* the keys created_at, updated_at, userid or vcmetadata and its id is
\* blank; and a map under subject["vccredentialsubject"] replaces the
\* credential subject wholesale for every scope, "subject_data" included.
C36_SubjectAlwaysStripped ==
    Prepared =>
        /\ IsStripped(CredentialMember("credentialSubject"))
        /\ HasSubjectOverride =>
               CredentialMember("credentialSubject") = prepared.req.subject["vccredentialsubject"]

\* C36: when the embedded subject is the caller's subject map (a scope
\* other than "subject_data" and no map under subject["vccredentialsubject"])
\* it has none of the keys created_at, updated_at, userid or vcmetadata and
\* its id is blank; and a map under subject["vccredentialsubject"] replaces
\* the credential subject wholesale, with whatever keys and id it carries,
\* for every scope, "subject_data" included.
C36_SubjectStrippedUnlessReplaced ==
    Prepared =>
        /\ (~HasSubjectOverride /\ prepared.req.scope # "subject_data") =>
               IsStripped(CredentialMember("credentialSubject"))
        /\ HasSubjectOverride =>
               CredentialMember("credentialSubject") = prepared.req.subject["vccredentialsubject"]

\* C36 witness: a credential of another scope prepared from a subject with
\* created_at, vcmetadata and an id and without a vccredentialsubject map
\* embeds the subject without those fields and with a blank id
C36_Witness ==
    /\ Prepared
    /\ prepared.req.scope # "subject_data"
    /\ ~HasSubjectOverride
    /\ {"created_at", "vcmetadata", "id"} \subseteq DOMAIN prepared.req.subject
    /\ prepared.req.subject["id"] # StringValue("")
    /\ IsStripped(CredentialMember("credentialSubject"))

(***************************************************************************)
(* C37                                                                     *)
(***************************************************************************)
\* the human-readable state text of an event type
StateText(type) ==
    CASE type = "oidc_interaction_initiated" -> "awaiting QR code scan"
      [] type = "oidc_interaction_qr_scanned" -> "QR code scanned"
      [] type = "oidc_interaction_authorization_request_prepared" -> "authorization request prepared"
      [] type = "oidc_interaction_authorization_code_stored" -> "authorization code stored"
      [] type = "oidc_interaction_authorization_code_exchanged" ->
             "authorization code exchanged for access token"
      [] type = "oidc_interaction_succeeded" -> "issued successfully"
      [] type = "oidc_interaction_failed" -> "issuance failed"

\* the event types the check has answered the page with, in order
Observed == SelectSeq(page.polls, LAMBDA type : type # "")

\* C37: on both demo pages, whatever sequence of events the webhook check
\* returns, the page shows the state text of the latest event type, and once
\* it has observed oidc_interaction_succeeded or oidc_interaction_failed it
\* shows "issued successfully" or "issuance failed" and polls no more.
C37_PollerShowsLatestState ==
    (page.kind \in PageKinds /\ Observed # <<>>) =>
        LET latest == Observed[Len(Observed)]
        IN /\ page.txState = <<"State: ", StateText(latest)>>
           /\ latest \in {"oidc_interaction_succeeded", "oidc_interaction_failed"} =>
                  ~page.handle

(***************************************************************************)
(* C38                                                                     *)
(***************************************************************************)
\* the header map has the entry
Carries(key, value) == key \in DOMAIN header /\ header[key] = value

\* C38: every Token and Credential response, successful or failed, carries
\* Content-Type application/json, Cache-Control no-store and Pragma
\* no-cache: the headers are set before any validation step.
C38_OIDCResponseHeaders ==
    resp.op \in {"Token", "Credential"} =>
        /\ Carries("Content-Type", "application/json")
        /\ Carries("Cache-Control", "no-store")
        /\ Carries("Pragma", "no-cache")

\* C38 witness: a Token request refused for its code, a failed response,
\* carries the three headers
C38_Witness ==
    /\ resp.op = "Token"
    /\ resp.status # StatusOK
    /\ resp.writes = <<>>
    /\ DOMAIN header = {"Content-Type", "Cache-Control", "Pragma"}

====
